---- MODULE Spec2Model ----
(***************************************************************************)
(* Attendance roll-up of the Tempest attendance server.                    *)
(*                                                                         *)
(* The module models src/src/routes/attendance.js (the legacy router       *)
(* mounted by index.js): the stores it reads (excluded_dates.json,         *)
(* alt_map.json, attendance_overrides.json), the upstream log service it   *)
(* queries, computePayload and the cache file attendance.latest.json; and   *)
(* src/src/routes/attendance.memoryroutes.esm.js (the memory router): its  *)
(* in-memory state, its admin routes and the mirror of the state it writes *)
(* to the same three store files.                                          *)
(*                                                                         *)
(* Representation of JavaScript values                                     *)
(*   - a dateKey "YYYY-MM-DD" is the number of its local day: comparing    *)
(*     two zero-padded keys as strings is comparing the days; the empty    *)
(*     string '' (no lastSeen) is NoDate, smaller than every day;          *)
(*   - an instant is a number of hours (UTC);                              *)
(*   - a fractional attendance value is a number of eighths (One = 1.0),   *)
(*     all of them exact as IEEE doubles, so sums are exact; `attended`    *)
(*     (two decimals) is a number of hundredths;                           *)
(*   - an insertion-ordered Set or Map is the sequence of its keys in      *)
(*     insertion order; an optional value is a sequence of length <= 1.    *)
(***************************************************************************)
EXTENDS Integers, Sequences, FiniteSets, TLC

VARIABLES
    upstream,       \* what the log service answers: pages, fights, tables
    excludedFile,   \* data/excluded_dates.json: array of {dateKey, reason}
    altMapFile,     \* data/alt_map.json: { alt: main }
    overridesFile,  \* data/attendance_overrides.json: { dateKey: { name: fractional } }
    latest,         \* data/attendance.latest.json: <<>> or <<payload>>
    previous,       \* history: what latest held before the last writeLatest
    runs,           \* the invocations of computePayload, in the order they started
    failures,       \* how many upstream calls have failed so far
    existed,        \* history: the contents the three stores have held together
    adminToken,     \* process.env.ATTEND_ADMIN_TOKEN: <<>> (not set) or <<token>>
    state,          \* the memory router's state: overrides, links, dates
    saves,          \* the calls of saveAll whose writes have not all landed
    answers         \* the statuses the mutating requests were answered with

vars == <<upstream, excludedFile, altMapFile, overridesFile, latest, previous,
          runs, failures, existed, adminToken, state, saves, answers>>

\* What belongs to the admin side of the two routers
adminVars == <<adminToken, state, saves, answers>>

----------------------------------------------------------------------------
(* Generic helpers for insertion-ordered collections *)

Range(s) == {s[i] : i \in DOMAIN s}

\* Set.prototype.add on an insertion-ordered set
SetAdd(s, x) == IF x \in Range(s) THEN s ELSE Append(s, x)

RECURSIVE SetAddAll(_, _)
SetAddAll(s, xs) ==
    IF xs = <<>> THEN s ELSE SetAddAll(SetAdd(s, Head(xs)), Tail(xs))

\* Set.prototype.delete
SetDelete(s, x) == SelectSeq(s, LAMBDA y : y # x)

----------------------------------------------------------------------------
(* Names *)

\* Character names seen in tables, alias maps and overrides, in the order
\* String.prototype.localeCompare gives them.
NameOrder == <<"Alt", "Bob", "Cora", "Dana", "Finn", "Gus", "Kaldorei Elite", "Main">>

Rank(n) == CHOOSE i \in DOMAIN NameOrder : NameOrder[i] = n

\* a.localeCompare(b): negative, zero or positive
LocaleCompare(a, b) == Rank(a) - Rank(b)

\* String.prototype.trim on the raw names an upstream table can carry
Trim(s) ==
    CASE s = " Bob " -> "Bob"
      [] s = " Kaldorei Elite " -> "Kaldorei Elite"
      [] s = "  " -> ""
      [] OTHER -> s

PLAYER_CLASSES == {"Warrior", "Rogue", "Warlock", "Paladin", "Priest", "Druid",
                   "Hunter", "Mage", "Shaman", "Death Knight", "DeathKnight",
                   "Monk", "Demon Hunter", "DemonHunter", "Evoker"}

KNOWN_NPCS == {"Lieutenant General Andorov", "Kaldorei Elite"}

\* e.type of an entry that carries no type (undefined or null)
NoType == "<null>"

----------------------------------------------------------------------------
(* Calendar *)

\* TIMEZONE 'America/Chicago' in winter: local time is UTC-6
TzOffsetHours == -6

\* The local day an instant falls on.  Day 1 is a Tuesday.
LocalDay(msUTC) == (msUTC + TzOffsetHours) \div 24

\* 'tue' and 'thu' among the days of the week, day 1 being a Tuesday
IsTueOrThuLocal(msUTC) == (LocalDay(msUTC) % 7) \in {1, 3}

\* Mutant: the dateKey is the UTC date of the instant
DateKeyUTC(msUTC) == msUTC \div 24

\* dateKeyLocal: the local date of the instant in TIMEZONE
DateKeyLocal(msUTC) == LocalDay(msUTC)

\* '' as a dateKey: lastSeen of a member never seen
NoDate == 0

----------------------------------------------------------------------------
(* The upstream log service *)

\* The answer to GuildReports for a page: pages past the last one are empty.
PageResponse(pages, page) ==
    IF page \in DOMAIN pages THEN pages[page]
    ELSE [data |-> <<>>, has_more_pages |-> FALSE]

\* fetchAllReports: pages 1, 2, ... until has_more_pages is false
RECURSIVE FetchPagesFrom(_, _, _)
FetchPagesFrom(pages, page, all) ==
    LET d == PageResponse(pages, page)
        all2 == all \o d.data
    IN  IF ~d.has_more_pages THEN all2
        ELSE FetchPagesFrom(pages, page + 1, all2)

FetchAllReports(pages) == FetchPagesFrom(pages, 1, <<>>)

\* An element of an array that is null instead of an object
Null == [null |-> TRUE]

\* extractEntries: a table is <<>> (null) or <<t>>, t having the optional
\* fields entries, data (with optional entries) and series, and `others`,
\* its remaining top-level values that are arrays, in the order of their keys.
\* An element of series is Null or has the optional fields entries and data.
FirstSeriesEntries(series) ==
    LET hit == SelectSeq(series, LAMBDA s : s # Null /\
                            (s.entries # <<>> \/
                             (s.data # <<>> /\ s.data[1].entries # <<>>)))
    IN  IF hit = <<>> THEN <<>>
        ELSE IF hit[1].entries # <<>> THEN hit[1].entries
        ELSE hit[1].data[1].entries

\* The values of the table that are arrays, as Object.values meets them
TopLevelArrays(t) ==
    (IF t.series # <<>> THEN <<t.series[1]>> ELSE <<>>) \o t.others

\* for (const v of Object.values(tableJson)): the first non-empty array whose
\* first element is an object with a name is returned; `'name' in v[0]`
\* throws a TypeError when v[0] is null, typeof null being 'object'
RECURSIVE ScanValues(_)
ScanValues(values) ==
    IF values = <<>> THEN [threw |-> FALSE, found |-> <<>>]
    ELSE LET v == Head(values)
         IN  IF v = <<>> THEN ScanValues(Tail(values))
             ELSE IF v[1] = Null THEN [threw |-> TRUE, found |-> <<>>]
             ELSE IF "name" \in DOMAIN v[1] THEN [threw |-> FALSE, found |-> v]
             ELSE ScanValues(Tail(values))

ExtractEntries(tableJson) ==
    IF tableJson = <<>> THEN <<>>
    ELSE LET t == tableJson[1]
         IN  IF t.entries # <<>> THEN t.entries[1]
             ELSE IF t.data # <<>> /\ t.data[1].entries # <<>>
                  THEN t.data[1].entries[1]
             ELSE IF t.series # <<>> /\ FirstSeriesEntries(t.series[1]) # <<>>
                  THEN FirstSeriesEntries(t.series[1])[1]
             ELSE ScanValues(TopLevelArrays(t)).found

\* extractEntries throws instead of returning
ExtractEntriesThrows(tableJson) ==
    LET MatchesShape(t) ==
            \/ t.entries # <<>>
            \/ t.data # <<>> /\ t.data[1].entries # <<>>
            \/ t.series # <<>> /\ FirstSeriesEntries(t.series[1]) # <<>>
    IN  /\ tableJson # <<>>
        /\ ~MatchesShape(tableJson[1])
        /\ ScanValues(TopLevelArrays(tableJson[1])).threw

\* isPlayerEntry: !e, !e.name, the deny-list on the name as it is, the type
IsPlayerEntry(e) ==
    IF e = Null THEN FALSE
    ELSE IF "name" \notin DOMAIN e \/ e.name = "" THEN FALSE
    ELSE IF e.name \in KNOWN_NPCS THEN FALSE
    ELSE IF e.type = NoType THEN TRUE
    ELSE e.type \in PLAYER_CLASSES

\* Mutant: only the response that arrives first is used
PromiseFirstOnly(dmg, heal, first) ==
    IF first = "DamageDone" THEN <<dmg, <<>>>> ELSE <<<<>>, heal>>

\* Mutant: Promise.race, both results are the response that arrives first
PromiseRace(dmg, heal, first) ==
    IF first = "DamageDone" THEN <<dmg, dmg>> ELSE <<heal, heal>>

\* const [dmg, heal] = await Promise.all([...]): the results keep the
\* positions of the two requests, whichever response arrives first.
PromiseAll(dmg, heal, first) == <<dmg, heal>>

\* The names one report adds to the night's presentSet, in insertion order;
\* `first` is the table whose response arrives first.
RECURSIVE EntryNames(_)
EntryNames(entries) ==
    IF entries = <<>> THEN <<>>
    ELSE <<Trim(Head(entries).name)>> \o EntryNames(Tail(entries))

\* Mutant: a report without kill fights is treated like any other
NoFightsNever(fights) == FALSE

\* if (!fights.length) continue
NoFights(fights) == Len(fights) = 0

ReportNames(up, r, first) ==
    LET fights == up.fights[r.code]
    IN  IF NoFights(fights) THEN <<>>
        ELSE LET both == PromiseAll(up.table[r.code].DamageDone,
                                    up.table[r.code].Healing, first)
                 dmgE == SelectSeq(ExtractEntries(both[1]), IsPlayerEntry)
                 healE == SelectSeq(ExtractEntries(both[2]), IsPlayerEntry)
             IN  EntryNames(dmgE) \o EntryNames(healE)

\* One of the two calls of extractEntries for the report throws
ReportThrows(up, r) ==
    /\ ~NoFights(up.fights[r.code])
    /\ \/ ExtractEntriesThrows(up.table[r.code].DamageDone)
       \/ ExtractEntriesThrows(up.table[r.code].Healing)

----------------------------------------------------------------------------
(* computePayload: nights *)

\* excludedSet = new Set(excludedArr.map(e => String(e?.dateKey || '')))
ExcludedSet(excludedArr) == {excludedArr[i].dateKey : i \in DOMAIN excludedArr}

\* Mutant: the excluded dates are not consulted
KeptReportsIgnoringExcluded(reports, excludedSet) ==
    SelectSeq(reports, LAMBDA r : IsTueOrThuLocal(r.startTime))

\* The reports computePayload keeps: local Tuesday or Thursday, not excluded
KeptReports(reports, excludedSet) ==
    SelectSeq(reports, LAMBDA r : IsTueOrThuLocal(r.startTime)
                                  /\ DateKeyLocal(r.startTime) \notin excludedSet)

\* grouped: the keys of the Map in insertion order, and the reports of a key
RECURSIVE GroupedKeys(_)
GroupedKeys(kept) ==
    IF kept = <<>> THEN <<>>
    ELSE SetAdd(GroupedKeys(SubSeq(kept, 1, Len(kept) - 1)),
                DateKeyLocal(kept[Len(kept)].startTime))

GroupedGet(kept, dateKey) ==
    SelectSeq(kept, LAMBDA r : DateKeyLocal(r.startTime) = dateKey)

\* Array.prototype.sort() of dateKeys: ascending
RECURSIVE InsertKey(_, _)
InsertKey(sorted, k) ==
    IF sorted = <<>> THEN <<k>>
    ELSE IF k < Head(sorted) THEN <<k>> \o sorted
    ELSE <<Head(sorted)>> \o InsertKey(Tail(sorted), k)

\* Mutant: the keys stay in the order the reports were fetched in
SortKeysInsertionOrder(keys) == keys

RECURSIVE SortKeys(_)
SortKeys(keys) ==
    IF keys = <<>> THEN <<>>
    ELSE InsertKey(SortKeys(Tail(keys)), Head(keys))

NightKeys(reports, excludedSet) ==
    SortKeys(GroupedKeys(KeptReports(reports, excludedSet)))

----------------------------------------------------------------------------
(* computePayload: presence of a night *)

\* Mutant: each report of a night starts the set afresh, the last one wins
AddReportsLastOnly(presentSet, up, rs, first) ==
    IF rs = <<>> THEN presentSet
    ELSE SetAddAll(<<>>, ReportNames(up, rs[Len(rs)], first))

\* presentSet of a night: every report of the night adds its names
RECURSIVE AddReports(_, _, _, _)
AddReports(presentSet, up, rs, first) ==
    IF rs = <<>> THEN presentSet
    ELSE AddReports(SetAddAll(presentSet, ReportNames(up, Head(rs), first)),
                    up, Tail(rs), first)

PresentSet(up, rs, first) == SetDelete(AddReports(<<>>, up, rs, first), "")

\* Mutant: the alias map is not applied
CanonicalIgnoringAliases(altMap, n) == n

\* altMap[n] || n
Canonical(altMap, n) == IF n \in DOMAIN altMap THEN altMap[n] ELSE n

\* presentMain = new Set(Array.from(presentSet, n => altMap[n] || n))
RECURSIVE PresentMain(_, _)
PresentMain(presentSet, altMap) ==
    IF presentSet = <<>> THEN <<>>
    ELSE SetAdd(PresentMain(SubSeq(presentSet, 1, Len(presentSet) - 1), altMap),
                Canonical(altMap, presentSet[Len(presentSet)]))

\* Mutant: the override table is flattened, every night sees the entries of
\* every date (its own first)
NightOverridesFlattened(overridesAll, dateKey) ==
    LET names == UNION {DOMAIN overridesAll[d] : d \in DOMAIN overridesAll}
        dateOf(n) == IF dateKey \in DOMAIN overridesAll
                        /\ n \in DOMAIN overridesAll[dateKey]
                     THEN dateKey
                     ELSE CHOOSE d \in DOMAIN overridesAll : n \in DOMAIN overridesAll[d]
    IN  [n \in names |-> overridesAll[dateOf(n)][n]]

\* nightOverrides = overridesAll[dateKey] || {}
NightOverrides(overridesAll, dateKey) ==
    IF dateKey \in DOMAIN overridesAll THEN overridesAll[dateKey] ELSE <<>>

\* perNight: one record per night key, in the order of nightKeys
RECURSIVE PerNight(_, _, _, _, _, _)
PerNight(up, kept, nightKeys, altMap, overridesAll, first) ==
    IF nightKeys = <<>> THEN <<>>
    ELSE LET dateKey == Head(nightKeys)
             presentSet == PresentSet(up, GroupedGet(kept, dateKey), first)
         IN  <<[dateKey |-> dateKey,
                presentMain |-> PresentMain(presentSet, altMap),
                nightOverrides |-> NightOverrides(overridesAll, dateKey)]>>
             \o PerNight(up, kept, Tail(nightKeys), altMap, overridesAll, first)

----------------------------------------------------------------------------
(* computePayload: players, statistics, rows *)

\* 1 in `base = night.presentMain.has(name) ? 1 : 0`, in eighths
One == 8

\* Object.entries / Object.keys of a { name: value } object
KeysOf(obj) == SelectSeq(NameOrder, LAMBDA n : n \in DOMAIN obj)

\* Mutant: an override key joins the players only if its value is positive
RECURSIVE AllPlayersCredited(_)
AllPlayersCredited(perNight) ==
    IF perNight = <<>> THEN <<>>
    ELSE LET night == perNight[Len(perNight)]
             before == AllPlayersCredited(SubSeq(perNight, 1, Len(perNight) - 1))
             credited == SelectSeq(NameOrder, LAMBDA n :
                            n \in DOMAIN night.nightOverrides
                            /\ night.nightOverrides[n] > 0)
         IN  SetAddAll(SetAddAll(before, night.presentMain), credited)

\* allPlayers: the names of presentMain, then the override keys, night by night
RECURSIVE AllPlayers(_)
AllPlayers(perNight) ==
    IF perNight = <<>> THEN <<>>
    ELSE LET night == perNight[Len(perNight)]
             before == AllPlayers(SubSeq(perNight, 1, Len(perNight) - 1))
         IN  SetAddAll(SetAddAll(before, night.presentMain),
                       KeysOf(night.nightOverrides))

\* perPlayerDates[name]: the dateKeys pushed for the name, night by night
RECURSIVE DatesPushed(_, _)
DatesPushed(perNight, name) ==
    IF perNight = <<>> THEN <<>>
    ELSE LET night == Head(perNight)
             seen == IF name \in Range(night.presentMain)
                     THEN <<night.dateKey>> ELSE <<>>
             over == IF name \in DOMAIN night.nightOverrides
                        /\ night.nightOverrides[name] > 0
                     THEN <<night.dateKey>> ELSE <<>>
         IN  seen \o over \o DatesPushed(Tail(perNight), name)

PerPlayerDates(perNight) ==
    LET named == {n \in Range(AllPlayers(perNight)) : DatesPushed(perNight, n) # <<>>}
    IN  [n \in named |-> DatesPushed(perNight, n)]

\* Mutant: an override never lowers the credit of a member resolved present
AppliedKeepsPresence(night, name) ==
    IF name \in Range(night.presentMain) THEN One
    ELSE IF name \in DOMAIN night.nightOverrides
         THEN night.nightOverrides[name] ELSE 0

\* applied = night.nightOverrides[name] ?? base
Applied(night, name) ==
    LET base == IF name \in Range(night.presentMain) THEN One ELSE 0
    IN  IF name \in DOMAIN night.nightOverrides
        THEN night.nightOverrides[name] ELSE base

\* lastSeen after a night, given the value applied on it
LastSeenAfter(lastSeen, night, name, applied) ==
    IF applied > 0 /\ (lastSeen = NoDate \/ night.dateKey > lastSeen)
    THEN night.dateKey ELSE lastSeen

\* stats[name] after the roll-up loop over perNight
RECURSIVE Stats(_, _)
Stats(perNight, name) ==
    IF perNight = <<>> THEN [nightsAttended |-> 0, lastSeen |-> NoDate]
    ELSE LET night == perNight[Len(perNight)]
             s == Stats(SubSeq(perNight, 1, Len(perNight) - 1), name)
             applied == Applied(night, name)
         IN  [nightsAttended |-> s.nightsAttended + applied,
              lastSeen |-> LastSeenAfter(s.lastSeen, night, name, applied)]

\* Mutant: the digits after the second decimal are cut off
ToFixed2Truncating(x) ==
    IF x >= 0 THEN (25 * x) \div 2 ELSE -((25 * (-x)) \div 2)

\* Number(x.toFixed(2)), x in eighths, the result in hundredths: the nearest
\* hundredth, the larger in magnitude of two equally near
ToFixed2(x) ==
    IF x >= 0 THEN (25 * x + 1) \div 2 ELSE -((25 * (-x) + 1) \div 2)

\* Mutant: the percentage is cut off instead of rounded
RoundPctTruncating(x, totalNights) == (25 * x) \div (2 * totalNights)

\* Math.round((x / totalNights) * 100), x in eighths: halves go up
RoundPct(x, totalNights) == (25 * x + totalNights) \div (2 * totalNights)

\* Mutant: the denominator of a member counts only the nights on which the
\* member was resolved present or has an override
PossiblePerMember(perNight, name, totalNights) ==
    Cardinality({i \in DOMAIN perNight :
                    name \in Range(perNight[i].presentMain)
                    \/ name \in DOMAIN perNight[i].nightOverrides})

\* possible: totalNights
Possible(perNight, name, totalNights) == totalNights

Row(perNight, name, totalNights) ==
    LET s == Stats(perNight, name)
    IN  [name |-> name,
         attended |-> ToFixed2(s.nightsAttended),
         possible |-> Possible(perNight, name, totalNights),
         pct |-> IF totalNights # 0 THEN RoundPct(s.nightsAttended, totalNights) ELSE 0,
         lastSeen |-> s.lastSeen]

\* Mutant: equal pct and attended leave the rows in insertion order
CompareRowsWithoutName(a, b) ==
    IF b.pct - a.pct # 0 THEN b.pct - a.pct
    ELSE b.attended - a.attended

\* (a, b) => b.pct - a.pct || b.attended - a.attended || a.name.localeCompare(b.name)
CompareRows(a, b) ==
    IF b.pct - a.pct # 0 THEN b.pct - a.pct
    ELSE IF b.attended - a.attended # 0 THEN b.attended - a.attended
    ELSE LocaleCompare(a.name, b.name)

\* Array.prototype.sort(compare), a stable sort
RECURSIVE InsertRow(_, _)
InsertRow(sorted, row) ==
    IF sorted = <<>> THEN <<row>>
    ELSE IF CompareRows(row, Head(sorted)) < 0 THEN <<row>> \o sorted
    ELSE <<Head(sorted)>> \o InsertRow(Tail(sorted), row)

RECURSIVE SortRows(_)
SortRows(rows) ==
    IF rows = <<>> THEN <<>>
    ELSE InsertRow(SortRows(SubSeq(rows, 1, Len(rows) - 1)), rows[Len(rows)])

RECURSIVE RowsOf(_, _, _)
RowsOf(perNight, players, totalNights) ==
    IF players = <<>> THEN <<>>
    ELSE <<Row(perNight, Head(players), totalNights)>>
         \o RowsOf(perNight, Tail(players), totalNights)

\* The nights of one run, with what the run resolved for each
PerNightOf(up, excludedArr, altMap, overridesAll, first) ==
    LET excludedSet == ExcludedSet(excludedArr)
        reports == FetchAllReports(up.pages)
        kept == KeptReports(reports, excludedSet)
    IN  PerNight(up, kept, NightKeys(reports, excludedSet), altMap, overridesAll, first)

\* computePayload rejects although every upstream call returned
ComputePayloadThrows(up, excludedArr) ==
    \E r \in Range(KeptReports(FetchAllReports(up.pages), ExcludedSet(excludedArr))) :
        ReportThrows(up, r)

ComputePayload(up, excludedArr, altMap, overridesAll, first) ==
    LET nightKeys == NightKeys(FetchAllReports(up.pages), ExcludedSet(excludedArr))
        perNight == PerNightOf(up, excludedArr, altMap, overridesAll, first)
        allPlayers == AllPlayers(perNight)
        totalNights == Len(nightKeys)
    IN  [nights |-> nightKeys,
         rows |-> SortRows(RowsOf(perNight, allPlayers, totalNights)),
         perPlayerDates |-> PerPlayerDates(perNight),
         excluded |-> excludedArr]

----------------------------------------------------------------------------
(* The inputs of a run: what upstream holds and what the files hold *)

Entry(name, type) == [name |-> name, type |-> type]

\* A table whose entries are at .entries, and one whose entries are at .data.entries
DirectTable(entries) ==
    <<[entries |-> <<entries>>, data |-> <<>>, series |-> <<>>, others |-> <<>>]>>

NestedTable(entries) ==
    <<[entries |-> <<>>, data |-> <<[entries |-> <<entries>>]>>,
       series |-> <<>>, others |-> <<>>]>>

\* What upstream can hold for one report: its kill fights and its two tables
NoKills == [fights |-> <<>>, DamageDone |-> <<>>, Healing |-> <<>>]

AltOnly ==
    [fights |-> <<1>>,
     DamageDone |-> DirectTable(<<Entry("Alt", "Mage")>>),
     Healing |-> DirectTable(<<>>)]

BobMain ==
    [fights |-> <<1, 2>>,
     DamageDone |-> DirectTable(<<Entry("Bob", "Warrior"), Entry("Main", NoType),
                                  Entry("Kaldorei Elite", "NPC")>>),
     Healing |-> NestedTable(<<Entry("Main", NoType)>>)]

MainBob ==
    [fights |-> <<3>>,
     DamageDone |-> DirectTable(<<Entry("Main", "Druid"), Entry("Alt", "Pet")>>),
     Healing |-> DirectTable(<<Entry(" Bob ", "Priest"), Entry("  ", NoType)>>)]

ReportChoices(code) ==
    CASE code = "r1" -> {AltOnly, BobMain}
      [] code = "r2" -> {AltOnly, BobMain, MainBob}
      [] code = "r3" -> {NoKills, BobMain}
      [] code = "r5" -> {NoKills, MainBob}

\* The reports of the window: r1 starts on Tuesday (day 1) at 20:00 local time,
\* which is Wednesday 02:00 UTC; r2 on Thursday (day 3), r3 on the next Tuesday
\* (day 8), r4 on Wednesday (day 2), all at 20:00 local time; r5 starts on the
\* Tuesday of r1 at 23:00 local time, which is Wednesday 05:00 UTC.  Every
\* report lasts five hours, so each ends on the local day after its start:
\* r4 ends on Thursday.
Report(code, startTime) ==
    LET RaidHours == 5
    IN  [code |-> code, startTime |-> startTime, endTime |-> startTime + RaidHours]

NightCodes == {"r1", "r2", "r3", "r5"}

Pages ==
    <<[data |-> <<Report("r2", 98), Report("r4", 74)>>, has_more_pages |-> TRUE],
      [data |-> <<Report("r1", 50), Report("r3", 218), Report("r5", 53)>>,
       has_more_pages |-> FALSE]>>

Upstreams ==
    { [pages |-> Pages,
       fights |-> [c \in NightCodes \cup {"r4"} |->
                      IF c = "r4" THEN <<7>> ELSE pick[c].fights],
       table |-> [c \in NightCodes \cup {"r4"} |->
                      IF c = "r4"
                      THEN [DamageDone |-> DirectTable(<<Entry("Bob", "Rogue")>>),
                            Healing |-> DirectTable(<<>>)]
                      ELSE [DamageDone |-> pick[c].DamageDone,
                            Healing |-> pick[c].Healing]]]
      : pick \in {f \in [NightCodes -> {NoKills, AltOnly, BobMain, MainBob}] :
                    \A c \in NightCodes : f[c] \in ReportChoices(c)} }

\* excluded_dates.json: rows { dateKey, reason }
ExcludedRow(dateKey) == [dateKey |-> dateKey, reason |-> "Excluded"]

ExcludedArrays ==
    { <<>>, <<ExcludedRow(3)>>, <<ExcludedRow(8), ExcludedRow(1)>>,
      <<ExcludedRow(1), ExcludedRow(3), ExcludedRow(8)>> }

\* alt_map.json
AltMaps ==
    { <<>>,
      ("Alt" :> "Main"),
      ("Alt" :> "Main") @@ ("Bob" :> "Alt") }

\* Fractional values an override can carry, in eighths: 0, 0.125, 0.5, 2
OverrideValues == {0, 1, 4, 16}

\* The most override entries attendance_overrides.json holds
MaxOverrides == 2

\* The (dateKey, name) pairs overrides are drawn for; day 2 is a Wednesday
OverrideKeys == {<<1, "Alt">>, <<3, "Main">>, <<8, "Bob">>, <<2, "Bob">>}

\* The values drawn for a pair
OverrideValuesFor(k) == IF k[1] = 2 THEN {4} ELSE OverrideValues

OverrideKeySets ==
    {ks \in SUBSET OverrideKeys : Cardinality(ks) <= MaxOverrides}

\* { dateKey: { name: fractional } } with the given entries
OverrideTable(flat) ==
    [d \in {k[1] : k \in DOMAIN flat} |->
        [n \in {k[2] : k \in {j \in DOMAIN flat : j[1] = d}} |-> flat[<<d, n>>]]]

OverrideTables ==
    UNION { {OverrideTable(flat) :
                flat \in {f \in [ks -> OverrideValues] :
                             \A k \in ks : f[k] \in OverrideValuesFor(k)}}
            : ks \in OverrideKeySets }

\* The table whose response arrives first
Arrivals == {"DamageDone", "Healing"}

\* const state = { overrides: [], links: [], dates: [] }
EmptyState == [overrides |-> <<>>, links |-> <<>>, dates |-> <<>>]

----------------------------------------------------------------------------
(* The roll-up on its own: any contents of the files, any upstream *)

InitRollup ==
    /\ upstream \in Upstreams
    /\ excludedFile \in ExcludedArrays
    /\ altMapFile \in AltMaps
    /\ overridesFile \in OverrideTables
    /\ latest = <<>>
    /\ previous = <<>>
    /\ runs = <<>>
    /\ failures = 0
    /\ existed = {}
    /\ adminToken = <<"secret">>
    /\ state = EmptyState
    /\ saves = <<>>
    /\ answers = <<>>

\* GET /refresh: computePayload, then writeLatest; 500 and no write when
\* computePayload rejects
Refresh ==
    \E first \in Arrivals :
        /\ IF ComputePayloadThrows(upstream, excludedFile)
           THEN UNCHANGED <<latest, previous>>
           ELSE /\ latest' = <<ComputePayload(upstream, excludedFile, altMapFile,
                                              overridesFile, first)>>
                /\ previous' = latest
        /\ UNCHANGED <<upstream, excludedFile, altMapFile, overridesFile,
                       runs, failures, existed>>
        /\ UNCHANGED adminVars

NextRollup == Refresh

SpecRollup == InitRollup /\ [][NextRollup]_vars

----------------------------------------------------------------------------
(* The router step by step: the runs of computePayload, each resuming when  *)
(* the upstream call it awaits settles, and the admin routes between them   *)

\* How a call of wclQuery ends: with the data; by throwing (the token
\* exchange fails, the request fails, the body is not JSON, or the body
\* carries `errors`); or by returning undefined, when the body is JSON with
\* neither `errors` nor `data` (the status of the response is not looked at)
Outcomes == {"data", "noData", "rejects"}

\* The most calls of computePayload of a behaviour
MaxRuns == 3

\* The most upstream calls that fail in a behaviour
MaxFailures == 1

\* The contents of the three stores at one moment
Stores(ex, alt, ov) == [excluded |-> ex, altMap |-> alt, overrides |-> ov]

\* computePayload up to its first await: the excluded dates are read and
\* page 1 is requested
NewRun(kind, excludedArr) ==
    [kind |-> kind, pc |-> "page", excludedArr |-> excludedArr,
     altMap |-> <<>>, overridesAll |-> <<>>,
     page |-> 1, requested |-> <<1>>, all |-> <<>>, todo |-> <<>>,
     noDataPages |-> {}, noDataCalls |-> {}, payload |-> <<>>]

\* The reports of the nights, night by night in the order of nightKeys
RECURSIVE ReportsInNightOrder(_, _)
ReportsInNightOrder(kept, nightKeys) ==
    IF nightKeys = <<>> THEN <<>>
    ELSE GroupedGet(kept, Head(nightKeys))
         \o ReportsInNightOrder(kept, Tail(nightKeys))

\* computePayload between the return of fetchAllReports and the first fights
\* query: the reports are grouped, the alias map and the overrides are read
AfterPages(run) ==
    LET excludedSet == ExcludedSet(run.excludedArr)
    IN  [run EXCEPT !.pc = "fights",
                    !.altMap = altMapFile,
                    !.overridesAll = overridesFile,
                    !.todo = ReportsInNightOrder(KeptReports(run.all, excludedSet),
                                                 NightKeys(run.all, excludedSet))]

\* What upstream answered to the run: the reports it accumulated, and for
\* the calls that returned undefined no fights and no table
SeenUpstream(run) ==
    [pages |-> <<[data |-> run.all, has_more_pages |-> FALSE]>>,
     fights |-> [c \in DOMAIN upstream.fights |->
                    IF <<"fights", c>> \in run.noDataCalls THEN <<>>
                    ELSE upstream.fights[c]],
     table |-> [c \in DOMAIN upstream.table |->
                    [DamageDone |-> IF <<"DamageDone", c>> \in run.noDataCalls
                                    THEN <<>> ELSE upstream.table[c].DamageDone,
                     Healing |-> IF <<"Healing", c>> \in run.noDataCalls
                                 THEN <<>> ELSE upstream.table[c].Healing]]]

\* Mutant: a failed roll-up caches a payload without nights and rows
OnRejectedCachesEmpty(cache) ==
    <<[nights |-> <<>>, rows |-> <<>>, perPlayerDates |-> <<>>, excluded |-> <<>>]>>

\* .catch(() => {}) of a recompute, catch (e) of GET /refresh: writeLatest is
\* not reached
OnRejected(cache) == cache

\* A call of the run throws: computePayload rejects
Reject(r) ==
    /\ runs' = [runs EXCEPT ![r].pc = "failed"]
    /\ latest' = OnRejected(latest)
    /\ UNCHANGED previous

\* The run resumes as `next`; with no report left to query it runs to its
\* end without another await, and its payload is handed to writeLatest
Advance(r, next) ==
    IF next.pc = "fights" /\ next.todo = <<>>
    THEN \E first \in Arrivals :
            LET payload == ComputePayload(SeenUpstream(next), next.excludedArr,
                                          next.altMap, next.overridesAll, first)
            IN  /\ runs' = [runs EXCEPT ![r] = [next EXCEPT !.pc = "done",
                                                            !.payload = <<payload>>]]
                /\ latest' = <<payload>>
                /\ previous' = latest
    ELSE /\ runs' = [runs EXCEPT ![r] = next]
         /\ UNCHANGED <<latest, previous>>

\* d of a call that returned undefined: no data, has_more_pages falsy
NoDataPage == [data |-> <<>>, has_more_pages |-> FALSE]

\* Mutant: pages are requested as long as they carry records
HasMorePagesWhileData(d) == d.data # <<>>

\* if (!d?.reportData?.reports?.has_more_pages) break
HasMorePages(d) == d.has_more_pages

\* fetchAllReports: the answer to the page requested arrives
PageArrives(r) ==
    /\ runs[r].pc = "page"
    /\ \E outcome \in Outcomes :
          /\ outcome # "data" => failures < MaxFailures
          /\ failures' = IF outcome = "data" THEN failures ELSE failures + 1
          /\ IF outcome = "rejects" THEN Reject(r)
             ELSE LET run == runs[r]
                      d == IF outcome = "data"
                           THEN PageResponse(upstream.pages, run.page)
                           ELSE NoDataPage
                      got == [run EXCEPT
                                !.all = @ \o d.data,
                                !.noDataPages = IF outcome = "noData"
                                                THEN @ \cup {run.page} ELSE @]
                  IN  IF HasMorePages(d)
                      THEN Advance(r, [got EXCEPT !.page = @ + 1,
                                                  !.requested = Append(@, run.page + 1)])
                      ELSE Advance(r, AfterPages(got))
    /\ UNCHANGED <<upstream, excludedFile, altMapFile, overridesFile, existed>>
    /\ UNCHANGED adminVars

\* The answer to the fights query of the next report arrives
FightsArrive(r) ==
    /\ runs[r].pc = "fights"
    /\ \E outcome \in Outcomes :
          /\ outcome # "data" => failures < MaxFailures
          /\ failures' = IF outcome = "data" THEN failures ELSE failures + 1
          /\ IF outcome = "rejects" THEN Reject(r)
             ELSE LET run == runs[r]
                      code == Head(run.todo).code
                      fights == IF outcome = "data" THEN upstream.fights[code]
                                ELSE <<>>
                      got == [run EXCEPT
                                !.noDataCalls = IF outcome = "noData"
                                                THEN @ \cup {<<"fights", code>>}
                                                ELSE @]
                  IN  IF NoFights(fights)
                      THEN Advance(r, [got EXCEPT !.todo = Tail(@)])
                      ELSE Advance(r, [got EXCEPT !.pc = "tables"])
    /\ UNCHANGED <<upstream, excludedFile, altMapFile, overridesFile, existed>>
    /\ UNCHANGED adminVars

\* Both table queries of the report have settled: Promise.all resolves, or
\* rejects if either call threw; then extractEntries is applied to the two
\* tables, and the run rejects if it throws
TablesArrive(r) ==
    /\ runs[r].pc = "tables"
    /\ \E dmg \in Outcomes, heal \in Outcomes :
          LET failed == (IF dmg = "data" THEN 0 ELSE 1)
                        + (IF heal = "data" THEN 0 ELSE 1)
              run == runs[r]
              code == Head(run.todo).code
              lost == (IF dmg = "noData" THEN {<<"DamageDone", code>>} ELSE {})
                      \cup (IF heal = "noData" THEN {<<"Healing", code>>} ELSE {})
          IN  /\ failures + failed <= MaxFailures
              /\ failures' = failures + failed
              /\ IF \/ "rejects" \in {dmg, heal}
                    \/ dmg = "data"
                       /\ ExtractEntriesThrows(upstream.table[code].DamageDone)
                    \/ heal = "data"
                       /\ ExtractEntriesThrows(upstream.table[code].Healing)
                 THEN Reject(r)
                 ELSE Advance(r, [run EXCEPT !.pc = "fights",
                                             !.todo = Tail(@),
                                             !.noDataCalls = @ \cup lost])
    /\ UNCHANGED <<upstream, excludedFile, altMapFile, overridesFile, existed>>
    /\ UNCHANGED adminVars

\* GET /refresh: computePayload is called
RefreshStart ==
    /\ Len(runs) < MaxRuns
    /\ runs' = Append(runs, NewRun("refresh", excludedFile))
    /\ UNCHANGED <<upstream, excludedFile, altMapFile, overridesFile, latest,
                   previous, failures, existed>>
    /\ UNCHANGED adminVars

\* What GET /refresh answers once its run has settled
RefreshResponse(run) ==
    IF run.pc = "failed" THEN [status |-> 500, body |-> <<>>]
    ELSE [status |-> 200, body |-> run.payload]

\* What GET /latest answers
LatestResponse(cache) ==
    IF cache = <<>> THEN [status |-> 404, body |-> <<>>]
    ELSE [status |-> 200, body |-> cache]

\* An authorized admin route has written the stores: computePayload is called
\* without being awaited
Mutate(ex, alt, ov) ==
    /\ Len(runs) < MaxRuns
    /\ excludedFile' = ex
    /\ altMapFile' = alt
    /\ overridesFile' = ov
    /\ existed' = existed \cup {Stores(ex, alt, ov)}
    /\ runs' = Append(runs, NewRun("recompute", ex))
    /\ answers' = Append(answers, 200)
    /\ UNCHANGED <<upstream, latest, previous, failures, adminToken, state, saves>>

\* exArr with the row of the dateKey replaced, or the row pushed
UpsertExcluded(exArr, row) ==
    LET hits == {i \in DOMAIN exArr : exArr[i].dateKey = row.dateKey}
    IN  IF hits = {} THEN Append(exArr, row)
        ELSE LET idx == CHOOSE i \in hits : \A j \in hits : i <= j
             IN  SubSeq(exArr, 1, idx - 1) \o <<row>>
                 \o SubSeq(exArr, idx + 1, Len(exArr))

\* (o[dateKey] ||= {})[name] = fractional
SetOverride(o, dateKey, name, fractional) ==
    LET entries == IF dateKey \in DOMAIN o THEN o[dateKey] ELSE <<>>
        entries2 == [n \in DOMAIN entries \cup {name} |->
                        IF n = name THEN fractional ELSE entries[n]]
    IN  [d \in DOMAIN o \cup {dateKey} |-> IF d = dateKey THEN entries2 ELSE o[d]]

\* delete o[dateKey][name], and o[dateKey] when nothing is left under it
RemoveOverride(o, dateKey, name) ==
    IF ~(dateKey \in DOMAIN o /\ name \in DOMAIN o[dateKey]) THEN o
    ELSE LET rest == DOMAIN o[dateKey] \ {name}
             dates == IF rest = {} THEN DOMAIN o \ {dateKey} ELSE DOMAIN o
         IN  IF dates = {} THEN <<>>
             ELSE [d \in dates |->
                     IF d = dateKey THEN [n \in rest |-> o[dateKey][n]] ELSE o[d]]

\* map[alt] = main
SetAlias(map, alt, main) ==
    [a \in DOMAIN map \cup {alt} |-> IF a = alt THEN main ELSE map[a]]

\* if (map[alt]) delete map[alt]
RemoveAlias(map, alt) ==
    IF alt \notin DOMAIN map THEN map
    ELSE IF DOMAIN map = {alt} THEN <<>>
    ELSE [a \in DOMAIN map \ {alt} |-> map[a]]

\* The requests the admin sends
ExcludedRequests == {1}

OverrideRequests == {[dateKey |-> 1, name |-> "Alt", fractional |-> 4]}

AliasRequests == {[alt |-> "Bob", main |-> "Main"]}

ImportBodies ==
    {[overrides |-> <<(1 :> ("Main" :> 0))>>,
      altMap |-> <<>>,
      excluded |-> <<<<ExcludedRow(8)>>>>]}

\* POST /excluded, authorized, without a reason
PostExcluded ==
    \E dateKey \in ExcludedRequests :
        Mutate(UpsertExcluded(excludedFile, ExcludedRow(dateKey)),
               altMapFile, overridesFile)

\* DELETE /excluded
DeleteExcluded ==
    \E dateKey \in ExcludedRequests :
        Mutate(SelectSeq(excludedFile, LAMBDA d : d.dateKey # dateKey),
               altMapFile, overridesFile)

\* POST /override
PostOverride ==
    \E q \in OverrideRequests :
        Mutate(excludedFile, altMapFile,
               SetOverride(overridesFile, q.dateKey, q.name, q.fractional))

\* DELETE /override
DeleteOverride ==
    \E q \in OverrideRequests :
        Mutate(excludedFile, altMapFile,
               RemoveOverride(overridesFile, q.dateKey, q.name))

\* POST /alt-map
PostAltMap ==
    \E q \in AliasRequests :
        Mutate(excludedFile, SetAlias(altMapFile, q.alt, q.main), overridesFile)

\* DELETE /alt-map
DeleteAltMap ==
    \E q \in AliasRequests :
        Mutate(excludedFile, RemoveAlias(altMapFile, q.alt), overridesFile)

\* POST /import: the overrides, the alias map and the excluded dates of the
\* body are written one after the other, then computePayload is called
PostImport ==
    \E body \in ImportBodies :
        LET ov == IF body.overrides # <<>> THEN body.overrides[1] ELSE overridesFile
            alt == IF body.altMap # <<>> THEN body.altMap[1] ELSE altMapFile
            ex == IF body.excluded # <<>> THEN body.excluded[1] ELSE excludedFile
        IN  /\ Len(runs) < MaxRuns
            /\ overridesFile' = ov
            /\ altMapFile' = alt
            /\ excludedFile' = ex
            /\ existed' = existed \cup {Stores(excludedFile, altMapFile, ov),
                                        Stores(excludedFile, alt, ov),
                                        Stores(ex, alt, ov)}
            /\ runs' = Append(runs, NewRun("recompute", ex))
            /\ answers' = Append(answers, 200)
            /\ UNCHANGED <<upstream, latest, previous, failures,
                           adminToken, state, saves>>

\* What upstream holds while the router runs: one page with a Tuesday report
\* that has kills
SystemUpstream ==
    [pages |-> <<[data |-> <<Report("r1", 50)>>, has_more_pages |-> FALSE]>>,
     fights |-> [c \in {"r1"} |-> BobMain.fights],
     table |-> [c \in {"r1"} |->
                  [DamageDone |-> BobMain.DamageDone, Healing |-> BobMain.Healing]]]

InitSystem ==
    /\ upstream = SystemUpstream
    /\ excludedFile = <<>>
    /\ altMapFile = <<>>
    /\ overridesFile = <<>>
    /\ latest = <<>>
    /\ previous = <<>>
    /\ runs = <<>>
    /\ failures = 0
    /\ existed = {Stores(<<>>, <<>>, <<>>)}
    /\ adminToken = <<"secret">>
    /\ state = EmptyState
    /\ saves = <<>>
    /\ answers = <<>>

NextSystem ==
    \/ RefreshStart
    \/ PostExcluded
    \/ DeleteExcluded
    \/ PostOverride
    \/ DeleteOverride
    \/ PostAltMap
    \/ DeleteAltMap
    \/ PostImport
    \/ \E r \in DOMAIN runs : PageArrives(r)
    \/ \E r \in DOMAIN runs : FightsArrive(r)
    \/ \E r \in DOMAIN runs : TablesArrive(r)

SpecSystem == InitSystem /\ [][NextSystem]_vars

----------------------------------------------------------------------------
(* fetchAllReports on its own: one run, any pages *)

\* The most pages upstream holds
MaxPages == 3

\* What a page can carry
PageChoices ==
    {[data |-> data, has_more_pages |-> more] :
        data \in {<<>>, <<Report("r2", 98), Report("r4", 74)>>},
        more \in BOOLEAN}

PagingUpstreams ==
    {[pages |-> pages,
      fights |-> [c \in {"r1", "r2", "r4"} |-> IF c = "r2" THEN <<>> ELSE <<1>>],
      table |-> [c \in {"r1", "r2", "r4"} |->
                    [DamageDone |-> BobMain.DamageDone, Healing |-> BobMain.Healing]]]
     : pages \in UNION {[1 .. n -> PageChoices] : n \in 1 .. MaxPages}}

\* GET /refresh has called computePayload, which awaits page 1
InitPaging ==
    /\ upstream \in PagingUpstreams
    /\ excludedFile = <<>>
    /\ altMapFile = <<>>
    /\ overridesFile = <<>>
    /\ latest = <<>>
    /\ previous = <<>>
    /\ runs = <<NewRun("refresh", <<>>)>>
    /\ failures = 0
    /\ existed = {Stores(<<>>, <<>>, <<>>)}
    /\ adminToken = <<"secret">>
    /\ state = EmptyState
    /\ saves = <<>>
    /\ answers = <<>>

NextPaging == PageArrives(1)

\* Upstream answers every request
SpecPaging == InitPaging /\ [][NextPaging]_vars /\ WF_vars(NextPaging)

----------------------------------------------------------------------------
(* One run over two reports: any shape of table, any kind of entry *)

\* The shapes of a table. tableJson.entries: absent, an array with an entry,
\* an empty array. tableJson.data: absent, without entries, with entries.
\* tableJson.series: absent, [null], and arrays whose first element with
\* entries or data.entries is the second or the third. The other top-level
\* arrays: empty ones, arrays of objects without a name, arrays of entries
\* and arrays that start with null
ShapeTables ==
    LET SeriesItem(entries, data) == [entries |-> entries, data |-> data]
        DirectChoices == {<<>>, <<<<Entry("Bob", "Warrior")>>>>, <<<<>>>>}
        DataChoices ==
            {<<>>, <<[entries |-> <<>>]>>,
             <<[entries |-> <<<<Entry("Main", "Druid")>>>>]>>}
        SeriesChoices ==
            {<<>>,
             <<<<Null>>>>,
             <<<<SeriesItem(<<>>, <<>>)>>>>,
             <<<<Null, SeriesItem(<<<<Entry("Alt", "Mage")>>>>, <<>>)>>>>,
             <<<<SeriesItem(<<>>, <<>>),
                 SeriesItem(<<>>, <<[entries |-> <<<<Entry("Cora", "Hunter")>>>>]>>),
                 SeriesItem(<<<<Entry("Alt", "Mage")>>>>, <<>>)>>>>}
        OthersChoices ==
            {<<>>,
             <<<<>>, <<Entry("Dana", "Rogue")>>, <<Entry("Finn", "Monk")>>>>,
             <<<<Null>>, <<Entry("Dana", "Rogue")>>>>,
             <<<<[type |-> "Boss"]>>, <<Entry("Dana", "Rogue")>>, <<Null>>>>}
    IN  {<<[entries |-> e, data |-> d, series |-> s, others |-> o]>> :
            e \in DirectChoices, d \in DataChoices,
            s \in SeriesChoices, o \in OthersChoices}

\* A table with one element at .entries: an entry of any name and type,
\* null, or an object without a name
EntryTables ==
    LET EntryNameChoices ==
            {"Bob", " Bob ", "  ", "", "Kaldorei Elite", " Kaldorei Elite "}
        EntryTypeChoices == {NoType, "Priest", "NPC"}
    IN  {DirectTable(<<Entry(n, t)>>) : n \in EntryNameChoices, t \in EntryTypeChoices}
        \cup {DirectTable(<<Null>>), DirectTable(<<[type |-> "Priest"]>>)}

\* r1 starts on Tuesday (day 1) and has kills; r3 starts on the next Tuesday
\* (day 8) and has none, whatever its tables would hold
TableUpstreams ==
    {[pages |-> <<[data |-> <<Report("r1", 50), Report("r3", 218)>>,
                   has_more_pages |-> FALSE]>>,
      fights |-> [c \in {"r1", "r3"} |-> IF c = "r1" THEN <<1>> ELSE <<>>],
      table |-> [c \in {"r1", "r3"} |->
                    IF c = "r1" THEN [DamageDone |-> dmg, Healing |-> heal]
                    ELSE [DamageDone |-> DirectTable(<<Entry("Gus", "Shaman")>>),
                          Healing |-> DirectTable(<<>>)]]]
     : dmg \in ShapeTables, heal \in EntryTables}

\* GET /refresh has called computePayload, which awaits page 1
InitTables ==
    /\ upstream \in TableUpstreams
    /\ excludedFile = <<>>
    /\ altMapFile = <<>>
    /\ overridesFile = <<>>
    /\ latest = <<>>
    /\ previous = <<>>
    /\ runs = <<NewRun("refresh", <<>>)>>
    /\ failures = 0
    /\ existed = {Stores(<<>>, <<>>, <<>>)}
    /\ adminToken = <<"secret">>
    /\ state = EmptyState
    /\ saves = <<>>
    /\ answers = <<>>

NextTables ==
    \/ PageArrives(1)
    \/ FightsArrive(1)
    \/ TablesArrive(1)

SpecTables == InitTables /\ [][NextTables]_vars

----------------------------------------------------------------------------
(* The memory router: admin routes over an in-memory state that is mirrored *)
(* to the store files by writes that are not awaited one after the other    *)

\* String.prototype.toLowerCase on the names requests carry
ToLowerCase(s) ==
    CASE s = "Bob" -> "bob"
      [] s = "BOB" -> "bob"
      [] s = "Alt" -> "alt"
      [] OTHER -> s

\* (opts.adminToken ?? process.env.ATTEND_ADMIN_TOKEN ?? '').trim()
ADMIN_TOKEN == IF adminToken = <<>> THEN "" ELSE Trim(adminToken[1])

\* The Authorization headers requests carry; "" is a request without one
Headers ==
    {"", "Bearer secret", "Bearer  secret", "Bearer wrong", "Bearer undefined", "secret"}

\* header.startsWith('Bearer ') ? header.slice(7).trim() : ''
BearerToken(header) ==
    CASE header = "Bearer secret" -> "secret"
      [] header = "Bearer  secret" -> "secret"
      [] header = "Bearer wrong" -> "wrong"
      [] header = "Bearer undefined" -> "undefined"
      [] OTHER -> ""

\* Mutant: any bearer token is let through
RequireAuthAnyBearer(header) ==
    IF ADMIN_TOKEN = "" THEN 401
    ELSE IF BearerToken(header) = "" THEN 403
    ELSE 0

\* requireAuth: the status it answers with, or 0 when it calls next()
RequireAuth(header) ==
    LET token == BearerToken(header)
    IN  IF ADMIN_TOKEN = "" THEN 401
        ELSE IF token = "" \/ token # ADMIN_TOKEN THEN 403
        ELSE 0

\* The rows of state.overrides, state.links and state.dates
OverrideRow(dateKey, name, fractional) ==
    [dateKey |-> dateKey, name |-> name, fractional |-> fractional]


\* reason ? String(reason) : null
NoReason == "<null>"

DateRow(dateKey, reason) == [dateKey |-> dateKey, reason |-> reason]

\* arr.findIndex(test) as the set of the indexes that pass: the row at the
\* least of them is replaced, or the row is pushed when there is none
ReplaceOrPush(arr, hits, row) ==
    IF hits = {} THEN Append(arr, row)
    ELSE [arr EXCEPT ![CHOOSE i \in hits : \A j \in hits : i <= j] = row]

\* Mutant: the row to replace is looked up by the name as it is spelled
UpsertOverrideRowExactName(overrides, row) ==
    ReplaceOrPush(overrides,
                  {i \in DOMAIN overrides :
                      overrides[i].dateKey = row.dateKey
                      /\ overrides[i].name = row.name},
                  row)

\* POST /override: same dateKey and same name whatever the case
UpsertOverrideRow(overrides, row) ==
    ReplaceOrPush(overrides,
                  {i \in DOMAIN overrides :
                      overrides[i].dateKey = row.dateKey
                      /\ ToLowerCase(overrides[i].name) = ToLowerCase(row.name)},
                  row)

\* DELETE /override: state.overrides.filter(...)
DeleteOverrideRows(overrides, dateKey, name) ==
    SelectSeq(overrides, LAMBDA o :
        ~(o.dateKey = dateKey /\ ToLowerCase(o.name) = ToLowerCase(name)))

UpsertLinkRow(links, row) ==
    ReplaceOrPush(links,
                  {i \in DOMAIN links : ToLowerCase(links[i].alt) = ToLowerCase(row.alt)},
                  row)

DeleteLinkRows(links, alt) ==
    SelectSeq(links, LAMBDA l : ToLowerCase(l.alt) # ToLowerCase(alt))

UpsertDateRow(dates, row) ==
    ReplaceOrPush(dates, {i \in DOMAIN dates : dates[i].dateKey = row.dateKey}, row)

DeleteDateRows(dates, dateKey) ==
    SelectSeq(dates, LAMBDA d : d.dateKey # dateKey)

\* toLegacyOverrides: rows without a dateKey or a name are skipped, a later
\* row of the same dateKey and name replaces the value
RECURSIVE ToLegacyOverrides(_)
ToLegacyOverrides(overridesArr) ==
    IF overridesArr = <<>> THEN <<>>
    ELSE LET row == overridesArr[Len(overridesArr)]
             out == ToLegacyOverrides(SubSeq(overridesArr, 1, Len(overridesArr) - 1))
         IN  IF row.dateKey = NoDate \/ row.name = "" THEN out
             ELSE SetOverride(out, row.dateKey, row.name, row.fractional)

\* toLegacyAltMap
RECURSIVE ToLegacyAltMap(_)
ToLegacyAltMap(linksArr) ==
    IF linksArr = <<>> THEN <<>>
    ELSE LET row == linksArr[Len(linksArr)]
             out == ToLegacyAltMap(SubSeq(linksArr, 1, Len(linksArr) - 1))
         IN  IF row.alt = "" \/ row.main = "" THEN out
             ELSE SetAlias(out, row.alt, row.main)

\* The most mutating requests of a behaviour
MaxRequests == 2

\* The three files mirrorToLegacy writes
MirrorFiles == {"overrides", "links", "dates"}

\* saveAll, called: mirrorToLegacy converts the overrides and the links at
\* once and hands them and the array state.dates itself to writeJSON, which
\* turns its data into text only after it has awaited ensureDir.  datesAt
\* tells whether the array handed over is still state.dates ("live"), is an
\* array the state has dropped since ("frozen"), or is text already ("text").
NewSave(st) ==
    [overrides |-> ToLegacyOverrides(st.overrides),
     links |-> ToLegacyAltMap(st.links),
     dates |-> <<>>,
     datesAt |-> "live",
     pending |-> MirrorFiles]

\* state.dates is assigned another array: the writes that were handed the
\* old one keep it as it is now
DropDatesArray(inFlight, dates) ==
    [i \in DOMAIN inFlight |->
        IF inFlight[i].datesAt = "live"
        THEN [inFlight[i] EXCEPT !.dates = dates, !.datesAt = "frozen"]
        ELSE inFlight[i]]

\* A request can be handled
CanHandle == Len(answers) + Len(saves) < MaxRequests

\* The request is answered with an error status
Rejected(status) ==
    /\ answers' = Append(answers, status)
    /\ UNCHANGED <<state, saves, excludedFile, altMapFile, overridesFile>>

\* DELETE answered 404: the filtered array, which holds the same rows, has
\* been assigned to the state
NotFound(datesReplaced) ==
    /\ answers' = Append(answers, 404)
    /\ saves' = IF datesReplaced THEN DropDatesArray(saves, state.dates) ELSE saves
    /\ UNCHANGED <<state, excludedFile, altMapFile, overridesFile>>

\* The request has changed the state and awaits saveAll
Accepted(newState, datesReplaced) ==
    /\ state' = newState
    /\ saves' = Append(IF datesReplaced THEN DropDatesArray(saves, state.dates)
                       ELSE saves,
                       NewSave(newState))
    /\ UNCHANGED <<answers, excludedFile, altMapFile, overridesFile>>

\* The bodies the requests carry: a missing field is '' (name, alt, main),
\* NoDate (dateKey) or <<>> (fractional, of which Number() makes NaN)
OverrideBodies ==
    {[dateKey |-> 1, name |-> "Bob", fractional |-> <<4>>],
     [dateKey |-> 1, name |-> "bob", fractional |-> <<8>>],
     [dateKey |-> 3, name |-> "Bob", fractional |-> <<8>>],
     [dateKey |-> 1, name |-> "", fractional |-> <<4>>],
     [dateKey |-> 1, name |-> "Bob", fractional |-> <<>>]}

LinkBodies == {[alt |-> "Alt", main |-> "Main"], [alt |-> "Alt", main |-> ""]}

DateBodies == {[dateKey |-> 1, reason |-> NoReason], [dateKey |-> NoDate, reason |-> NoReason]}

\* r.post('/import', requireAuth, ...)
MemoryPostImport ==
    \E header \in Headers :
    \E body \in {[overrides |-> <<OverrideRow(3, "Bob", 4)>>,
                 links |-> <<>>,
                 dates |-> <<DateRow(8, NoReason)>>]} :
        /\ CanHandle
        /\ IF RequireAuth(header) # 0 THEN Rejected(RequireAuth(header))
           ELSE Accepted([overrides |-> body.overrides, links |-> body.links,
                          dates |-> body.dates], TRUE)
        /\ UNCHANGED <<upstream, latest, previous, runs, failures, existed,
                       adminToken>>

\* r.post('/override', requireAuth, ...) on one request
PostOverrideRequest(header, body) ==
    /\ CanHandle
    /\ IF RequireAuth(header) # 0 THEN Rejected(RequireAuth(header))
       ELSE IF body.dateKey = NoDate \/ body.name = "" \/ body.fractional = <<>>
       THEN Rejected(400)
       ELSE Accepted([state EXCEPT !.overrides =
                        UpsertOverrideRow(@, OverrideRow(body.dateKey, body.name,
                                                         body.fractional[1]))],
                     FALSE)
    /\ UNCHANGED <<upstream, latest, previous, runs, failures, existed,
                   adminToken>>

MemoryPostOverride ==
    \E header \in Headers, body \in OverrideBodies : PostOverrideRequest(header, body)

\* r.delete('/override', requireAuth, ...) on one request
DeleteOverrideRequest(header, body) ==
    /\ CanHandle
    /\ IF RequireAuth(header) # 0 THEN Rejected(RequireAuth(header))
       ELSE IF body.dateKey = NoDate \/ body.name = "" THEN Rejected(400)
       ELSE LET rest == DeleteOverrideRows(state.overrides, body.dateKey, body.name)
            IN  IF Len(rest) = Len(state.overrides) THEN NotFound(FALSE)
                ELSE Accepted([state EXCEPT !.overrides = rest], FALSE)
    /\ UNCHANGED <<upstream, latest, previous, runs, failures, existed,
                   adminToken>>

MemoryDeleteOverride ==
    \E header \in Headers, body \in OverrideBodies : DeleteOverrideRequest(header, body)

\* r.post('/alt-map', requireAuth, ...)
MemoryPostAltMap ==
    \E header \in Headers, body \in LinkBodies :
        /\ CanHandle
        /\ IF RequireAuth(header) # 0 THEN Rejected(RequireAuth(header))
           ELSE IF body.alt = "" \/ body.main = "" THEN Rejected(400)
           ELSE Accepted([state EXCEPT !.links =
                            UpsertLinkRow(@, [alt |-> body.alt, main |-> body.main])], FALSE)
        /\ UNCHANGED <<upstream, latest, previous, runs, failures, existed,
                       adminToken>>

\* r.delete('/alt-map', requireAuth, ...)
MemoryDeleteAltMap ==
    \E header \in Headers, body \in LinkBodies :
        /\ CanHandle
        /\ IF RequireAuth(header) # 0 THEN Rejected(RequireAuth(header))
           ELSE IF body.alt = "" THEN Rejected(400)
           ELSE LET rest == DeleteLinkRows(state.links, body.alt)
                IN  IF Len(rest) = Len(state.links) THEN NotFound(FALSE)
                    ELSE Accepted([state EXCEPT !.links = rest], FALSE)
        /\ UNCHANGED <<upstream, latest, previous, runs, failures, existed,
                       adminToken>>

\* r.post('/excluded', requireAuth, ...): the row is put into the array
\* state.dates itself
MemoryPostExcluded ==
    \E header \in Headers, body \in DateBodies :
        /\ CanHandle
        /\ IF RequireAuth(header) # 0 THEN Rejected(RequireAuth(header))
           ELSE IF body.dateKey = NoDate THEN Rejected(400)
           ELSE Accepted([state EXCEPT !.dates =
                            UpsertDateRow(@, DateRow(body.dateKey, body.reason))],
                         FALSE)
        /\ UNCHANGED <<upstream, latest, previous, runs, failures, existed,
                       adminToken>>

\* r.delete('/excluded', requireAuth, ...)
MemoryDeleteExcluded ==
    \E header \in Headers, body \in DateBodies :
        /\ CanHandle
        /\ IF RequireAuth(header) # 0 THEN Rejected(RequireAuth(header))
           ELSE IF body.dateKey = NoDate THEN Rejected(400)
           ELSE LET rest == DeleteDateRows(state.dates, body.dateKey)
                IN  IF Len(rest) = Len(state.dates) THEN NotFound(TRUE)
                    ELSE Accepted([state EXCEPT !.dates = rest], TRUE)
        /\ UNCHANGED <<upstream, latest, previous, runs, failures, existed,
                       adminToken>>

\* writeJSON of the dates, past `await ensureDir`: JSON.stringify(data)
StringifyDates(i) ==
    /\ saves[i].datesAt # "text"
    /\ saves' = [saves EXCEPT ![i].dates = IF saves[i].datesAt = "live"
                                          THEN state.dates ELSE @,
                              ![i].datesAt = "text"]
    /\ UNCHANGED <<state, answers, excludedFile, altMapFile, overridesFile>>
    /\ UNCHANGED <<upstream, latest, previous, runs, failures, existed,
                   adminToken>>

\* One fsp.writeFile of a save lands; the handler answers 200 once all three
\* have (await Promise.all)
WriteLands(i, file) ==
    /\ file \in saves[i].pending
    /\ file = "dates" => saves[i].datesAt = "text"
    /\ overridesFile' = IF file = "overrides" THEN saves[i].overrides ELSE overridesFile
    /\ altMapFile' = IF file = "links" THEN saves[i].links ELSE altMapFile
    /\ excludedFile' = IF file = "dates" THEN saves[i].dates ELSE excludedFile
    /\ IF saves[i].pending = {file}
       THEN /\ saves' = SubSeq(saves, 1, i - 1) \o SubSeq(saves, i + 1, Len(saves))
            /\ answers' = Append(answers, 200)
       ELSE /\ saves' = [saves EXCEPT ![i].pending = @ \ {file}]
            /\ UNCHANGED answers
    /\ UNCHANGED state
    /\ UNCHANGED <<upstream, latest, previous, runs, failures, existed,
                   adminToken>>

\* The server has started: ensureFiles has left {} in the two files of
\* storage.js, the state is empty, the admin token is set or not
InitMemory ==
    /\ upstream = SystemUpstream
    /\ excludedFile = <<>>
    /\ altMapFile = <<>>
    /\ overridesFile = <<>>
    /\ latest = <<>>
    /\ previous = <<>>
    /\ runs = <<>>
    /\ failures = 0
    /\ existed = {Stores(<<>>, <<>>, <<>>)}
    /\ adminToken \in {<<>>, <<"secret">>}
    /\ state = EmptyState
    /\ saves = <<>>
    /\ answers = <<>>

NextMemory ==
    \/ MemoryPostImport
    \/ MemoryPostOverride
    \/ MemoryDeleteOverride
    \/ MemoryPostAltMap
    \/ MemoryDeleteAltMap
    \/ MemoryPostExcluded
    \/ MemoryDeleteExcluded
    \/ \E i \in DOMAIN saves : StringifyDates(i)
    \/ \E i \in DOMAIN saves : \E file \in MirrorFiles : WriteLands(i, file)

SpecMemory == InitMemory /\ [][NextMemory]_vars

----------------------------------------------------------------------------
(* The legacy router's admin routes as they are requested: each of them     *)
(* checks the Authorization header, then the body, before it writes         *)

\* `Bearer ${process.env.ATTEND_ADMIN_TOKEN}`: a variable that is not set is
\* undefined, which the template string renders as 'undefined'
LegacyAuthorized(header) ==
    header = "Bearer " \o (IF adminToken = <<>> THEN "undefined" ELSE adminToken[1])

\* return res.status(status).json({ error }): nothing was read or written
LegacyRejected(status) ==
    /\ answers' = Append(answers, status)
    /\ UNCHANGED <<upstream, excludedFile, altMapFile, overridesFile, latest,
                   previous, runs, failures, existed, adminToken, state, saves>>

\* The bodies requests carry: a field that is missing is <<>>, a name that
\* is missing is ''; a fractional that is not a number is <<>> too
LegacyBodies ==
    [excluded |-> {[dateKey |-> <<>>], [dateKey |-> <<1>>]},
     override |-> {[dateKey |-> <<1>>, name |-> "Alt", fractional |-> <<4>>],
                   [dateKey |-> <<1>>, name |-> "Alt", fractional |-> <<>>],
                   [dateKey |-> <<>>, name |-> "Alt", fractional |-> <<4>>]},
     alias |-> {[alt |-> "Bob", main |-> "Main"],
                [alt |-> "Bob", main |-> ""],
                [alt |-> "", main |-> "Main"]}]

\* POST /excluded
LegacyPostExcluded ==
    \E header \in Headers : \E body \in LegacyBodies.excluded :
        /\ CanHandle
        /\ IF ~LegacyAuthorized(header) THEN LegacyRejected(401)
           ELSE IF body.dateKey = <<>> THEN LegacyRejected(400)
           ELSE Mutate(UpsertExcluded(excludedFile, ExcludedRow(body.dateKey[1])),
                       altMapFile, overridesFile)

\* DELETE /excluded
LegacyDeleteExcluded ==
    \E header \in Headers : \E body \in LegacyBodies.excluded :
        /\ CanHandle
        /\ IF ~LegacyAuthorized(header) THEN LegacyRejected(401)
           ELSE IF body.dateKey = <<>> THEN LegacyRejected(400)
           ELSE Mutate(SelectSeq(excludedFile,
                                 LAMBDA d : d.dateKey # body.dateKey[1]),
                       altMapFile, overridesFile)

\* POST /override
LegacyPostOverride ==
    \E header \in Headers : \E body \in LegacyBodies.override :
        /\ CanHandle
        /\ IF ~LegacyAuthorized(header) THEN LegacyRejected(401)
           ELSE IF body.dateKey = <<>> \/ body.name = "" \/ body.fractional = <<>>
                THEN LegacyRejected(400)
           ELSE Mutate(excludedFile, altMapFile,
                       SetOverride(overridesFile, body.dateKey[1], body.name,
                                   body.fractional[1]))

\* DELETE /override
LegacyDeleteOverride ==
    \E header \in Headers : \E body \in LegacyBodies.override :
        /\ CanHandle
        /\ IF ~LegacyAuthorized(header) THEN LegacyRejected(401)
           ELSE IF body.dateKey = <<>> \/ body.name = "" THEN LegacyRejected(400)
           ELSE Mutate(excludedFile, altMapFile,
                       RemoveOverride(overridesFile, body.dateKey[1], body.name))

\* POST /alt-map
LegacyPostAltMap ==
    \E header \in Headers : \E body \in LegacyBodies.alias :
        /\ CanHandle
        /\ IF ~LegacyAuthorized(header) THEN LegacyRejected(401)
           ELSE IF body.alt = "" \/ body.main = "" THEN LegacyRejected(400)
           ELSE Mutate(excludedFile, SetAlias(altMapFile, body.alt, body.main),
                       overridesFile)

\* DELETE /alt-map
LegacyDeleteAltMap ==
    \E header \in Headers : \E body \in LegacyBodies.alias :
        /\ CanHandle
        /\ IF ~LegacyAuthorized(header) THEN LegacyRejected(401)
           ELSE IF body.alt = "" THEN LegacyRejected(400)
           ELSE Mutate(excludedFile, RemoveAlias(altMapFile, body.alt),
                       overridesFile)

\* POST /import: the header is the only check
LegacyPostImport ==
    \E header \in Headers :
        /\ CanHandle
        /\ IF ~LegacyAuthorized(header) THEN LegacyRejected(401)
           ELSE PostImport

NextLegacyAdmin ==
    \/ LegacyPostExcluded
    \/ LegacyDeleteExcluded
    \/ LegacyPostOverride
    \/ LegacyDeleteOverride
    \/ LegacyPostAltMap
    \/ LegacyDeleteAltMap
    \/ LegacyPostImport
    \/ \E r \in DOMAIN runs : PageArrives(r)
    \/ \E r \in DOMAIN runs : FightsArrive(r)
    \/ \E r \in DOMAIN runs : TablesArrive(r)

\* The server starts as in InitMemory: ATTEND_ADMIN_TOKEN set or not, the
\* stores empty, nothing cached
SpecLegacyAdmin == InitMemory /\ [][NextLegacyAdmin]_vars

----------------------------------------------------------------------------
(* What the claims speak of *)

\* The cached payload, and the nights the run that produced it resolved
Payload == latest[1]

RunNights ==
    PerNightOf(upstream, excludedFile, altMapFile, overridesFile, "DamageDone")

\* The names observed in the tables of the reports of a night, before aliases
RawPresent(dateKey) ==
    Range(PresentSet(upstream,
                     GroupedGet(KeptReports(FetchAllReports(upstream.pages),
                                            ExcludedSet(excludedFile)), dateKey),
                     "DamageDone"))

RowNames == {Payload.rows[i].name : i \in DOMAIN Payload.rows}

RowOf(name) == Payload.rows[CHOOSE i \in DOMAIN Payload.rows :
                                Payload.rows[i].name = name]

HasOverride(dateKey, name) ==
    dateKey \in DOMAIN overridesFile /\ name \in DOMAIN overridesFile[dateKey]

\* What night i of the run added to the member's nightsAttended
Added(nights, i, name) ==
    Stats(SubSeq(nights, 1, i), name).nightsAttended
    - Stats(SubSeq(nights, 1, i - 1), name).nightsAttended

\* applied(d, name) as the specification states it, and its sum over the nights
SpecApplied(night, name) ==
    IF HasOverride(night.dateKey, name) THEN overridesFile[night.dateKey][name]
    ELSE IF name \in Range(night.presentMain) THEN One ELSE 0

RECURSIVE SpecSum(_, _)
SpecSum(nights, name) ==
    IF nights = <<>> THEN 0
    ELSE SpecApplied(Head(nights), name) + SpecSum(Tail(nights), name)

----------------------------------------------------------------------------
(* Claims *)

\* C1 (override precedence): for every night of the run and every name with an
\* override entry for that night, the name has a row and the value the night
\* adds to its nightsAttended is the override value, whether or not the name
\* was resolved present on that night.
C1_OverridePrecedence ==
    LET nights == RunNights IN
        latest # <<>> =>
            \A i \in DOMAIN nights :
                \A n \in DOMAIN nights[i].nightOverrides :
                    /\ n \in RowNames
                    /\ Added(nights, i, n) = overridesFile[nights[i].dateKey][n]

\* C1 witness: a member resolved present on a night is overridden to 0 there
\* and the night adds nothing to its total.
C1_Witness ==
    LET nights == RunNights IN
        /\ latest # <<>>
        /\ \E i \in DOMAIN nights :
              \E n \in Range(nights[i].presentMain) :
                  /\ HasOverride(nights[i].dateKey, n)
                  /\ overridesFile[nights[i].dateKey][n] = 0
                  /\ Added(nights, i, n) = 0

\* The days on which some fetched report starts on a local Tuesday or Thursday
QualifyingDays ==
    {DateKeyLocal(r.startTime) :
        r \in {q \in Range(FetchAllReports(upstream.pages)) : IsTueOrThuLocal(q.startTime)}}

\* C2 (denominator exclusion): no excluded dateKey is among the nights of the
\* payload, and every row's possible is the number of days with a qualifying
\* report minus the number of those days that are excluded.
C2_DenominatorExclusion ==
    latest # <<>> =>
        LET ex == ExcludedSet(excludedFile)
        IN  /\ Range(Payload.nights) \cap ex = {}
            /\ Len(Payload.nights)
                 = Cardinality(QualifyingDays) - Cardinality(QualifyingDays \cap ex)
            /\ \A i \in DOMAIN Payload.rows :
                  Payload.rows[i].possible
                    = Cardinality(QualifyingDays) - Cardinality(QualifyingDays \cap ex)

\* C2 witness: a day with a qualifying report whose tables name members is
\* excluded, and rows are produced with one night less.
C2_Witness ==
    /\ latest # <<>>
    /\ ExcludedSet(excludedFile) = {3}
    /\ upstream.fights["r2"] # <<>>
    /\ Payload.rows # <<>>
    /\ \A i \in DOMAIN Payload.rows : Payload.rows[i].possible = 2

\* Whether something other than the alias's own presence gives a row to the name:
\* it is an override key of a night, or an observed name resolves to it.
NamedOtherwise(nights, a) ==
    \E j \in DOMAIN nights :
        \/ a \in DOMAIN nights[j].nightOverrides
        \/ \E n \in RawPresent(nights[j].dateKey) : Canonical(altMapFile, n) = a

\* C3 as claimed (alias collapse): if A -> M is in the alias map and A is
\* observed on a night on which M is not, the row of M is credited exactly one
\* unit for that night and no row is named A.
C3_AsClaimed ==
    LET nights == RunNights IN
        latest # <<>> =>
            \A a \in DOMAIN altMapFile : \A i \in DOMAIN nights :
                LET m == altMapFile[a]
                    d == nights[i].dateKey
                IN  (a \in RawPresent(d) /\ m \notin RawPresent(d)) =>
                        /\ m \in RowNames
                        /\ Added(nights, i, m) = One
                        /\ a \notin RowNames

\* C3 amended: under the same condition M has a row, which is credited for that
\* night one unit, or the override value if (d, M) has an override; and no row
\* is named A unless A is an override key of some night or an observed name
\* resolves to A.
C3_AliasCollapse ==
    LET nights == RunNights IN
        latest # <<>> =>
            \A a \in DOMAIN altMapFile : \A i \in DOMAIN nights :
                LET m == altMapFile[a]
                    d == nights[i].dateKey
                IN  (a \in RawPresent(d) /\ m \notin RawPresent(d)) =>
                        /\ m \in RowNames
                        /\ Added(nights, i, m) = IF HasOverride(d, m)
                                         THEN overridesFile[d][m] ELSE One
                        /\ (~NamedOtherwise(nights, a) => a \notin RowNames)

\* C3 witness: Alt -> Main, Alt is observed on a night without Main and
\* without an override for Main, Main is credited one unit and no row is
\* named Alt.
C3_Witness ==
    LET nights == RunNights IN
        /\ latest # <<>>
        /\ "Alt" \in DOMAIN altMapFile /\ altMapFile["Alt"] = "Main"
        /\ \E i \in DOMAIN nights :
              /\ "Alt" \in RawPresent(nights[i].dateKey)
              /\ "Main" \notin RawPresent(nights[i].dateKey)
              /\ ~HasOverride(nights[i].dateKey, "Main")
              /\ Added(nights, i, "Main") = One
        /\ "Main" \in RowNames
        /\ "Alt" \notin RowNames

\* C4 (uniform denominator): every row's possible is the length of the
\* payload's nights list, so no two rows differ in possible.
C4_UniformDenominator ==
    latest # <<>> =>
        \A i \in DOMAIN Payload.rows :
            Payload.rows[i].possible = Len(Payload.nights)

\* C4 witness: two rows, one of a member with a signal (presence or override)
\* on every night and one of a member with a signal on fewer nights.
C4_Witness ==
    LET nights == RunNights IN
        /\ latest # <<>>
        /\ Len(Payload.nights) = 3
        /\ \E a, b \in RowNames :
              /\ PossiblePerMember(nights, a, 3) = 3
              /\ PossiblePerMember(nights, b, 3) = 1
              /\ RowOf(a).possible = 3
              /\ RowOf(b).possible = 3

\* C5 as claimed (attendance sum): every row's attended equals the sum over
\* the nights of applied(d, name): the override if there is one, otherwise 1
\* if the name is in the night's canonical presence set and 0 if not.
\* (attended is in hundredths, the sum in eighths.)
C5_AsClaimed ==
    LET nights == RunNights IN
        latest # <<>> =>
            \A i \in DOMAIN Payload.rows :
                2 * Payload.rows[i].attended
                  = 25 * SpecSum(nights, Payload.rows[i].name)

\* C5 amended: every row's attended is that sum rounded to two decimals, the
\* nearest hundredth and of two equally near the one larger in magnitude; it
\* is the sum itself when the sum has at most two decimals.
C5_AttendanceSum ==
    LET nights == RunNights IN
        latest # <<>> =>
            \A i \in DOMAIN Payload.rows :
                LET sum == SpecSum(nights, Payload.rows[i].name)
                    off == 2 * Payload.rows[i].attended - 25 * sum
                IN  IF sum >= 0 THEN off \in {0, 1} ELSE off \in {-1, 0}

\* C5 witness: two nights, a member present on one with an override of 0.5 on
\* the other: attended 1.5 and pct 75.
C5_Witness ==
    LET nights == RunNights IN
        /\ latest # <<>>
        /\ Len(Payload.nights) = 2
        /\ \E n \in RowNames :
              /\ \E i, j \in DOMAIN nights :
                    /\ n \in Range(nights[i].presentMain)
                    /\ ~HasOverride(nights[i].dateKey, n)
                    /\ n \notin Range(nights[j].presentMain)
                    /\ HasOverride(nights[j].dateKey, n)
                    /\ overridesFile[nights[j].dateKey][n] = 4
              /\ RowOf(n).attended = 150
              /\ RowOf(n).pct = 75

\* The nights of the run on which the member was in the canonical presence set
SeenOn(nights, name) ==
    {nights[i].dateKey : i \in {j \in DOMAIN nights :
                                  name \in Range(nights[j].presentMain)}}

\* C6 as claimed (lastSeen tracks genuine presence only): every row's lastSeen
\* is the latest night on which the member was in the resolved presence set,
\* and empty if there is none; override credit alone never advances it.
C6_AsClaimed ==
    LET nights == RunNights IN
        latest # <<>> =>
            \A i \in DOMAIN Payload.rows :
                LET seen == SeenOn(nights, Payload.rows[i].name)
                IN  Payload.rows[i].lastSeen
                      = IF seen = {} THEN NoDate
                        ELSE CHOOSE d \in seen : \A e \in seen : e <= d

\* C7 as claimed (percentage bound): every row's pct is between 0 and 100.
C7_AsClaimed ==
    latest # <<>> =>
        \A i \in DOMAIN Payload.rows :
            Payload.rows[i].pct >= 0 /\ Payload.rows[i].pct <= 100

Before(a, b) ==
    \/ a.pct > b.pct
    \/ a.pct = b.pct /\ a.attended > b.attended
    \/ a.pct = b.pct /\ a.attended = b.attended /\ Rank(a.name) < Rank(b.name)

\* C10 (output ordering): of any two adjacent rows the earlier one comes before
\* the later one by descending pct, then descending attended, then ascending
\* name.
C10_OutputOrdering ==
    latest # <<>> =>
        \A i \in 1 .. (Len(Payload.rows) - 1) :
            Before(Payload.rows[i], Payload.rows[i + 1])

\* C10 witness: two members tie on pct and attended, the one later in name
\* order entered the player set first, and the rows are in name order.
C10_Witness ==
    LET nights == RunNights IN
        /\ latest # <<>>
        /\ \E i \in 1 .. (Len(Payload.rows) - 1) :
              LET a == Payload.rows[i]
                  b == Payload.rows[i + 1]
                  players == AllPlayers(nights)
              IN  /\ a.pct = b.pct /\ a.attended = b.attended
                  /\ Rank(a.name) < Rank(b.name)
                  /\ \E j, k \in DOMAIN players :
                        players[j] = b.name /\ players[k] = a.name /\ j < k

\* C11 (night inventory): the nights of the payload are strictly ascending, and
\* a day is among them exactly if some fetched report starts on it on a local
\* Tuesday or Thursday and the day is not excluded.
C11_NightInventory ==
    latest # <<>> =>
        /\ \A i \in 1 .. (Len(Payload.nights) - 1) :
              Payload.nights[i] < Payload.nights[i + 1]
        /\ Range(Payload.nights) = QualifyingDays \ ExcludedSet(excludedFile)

\* C11 witness: the reports are fetched in an order that is not ascending, one
\* night has two reports, a Wednesday report is fetched as well, and the
\* payload lists the three nights in ascending order.
C11_Witness ==
    /\ latest # <<>>
    /\ GroupedKeys(KeptReports(FetchAllReports(upstream.pages),
                               ExcludedSet(excludedFile))) = <<3, 1, 8>>
    /\ Len(GroupedGet(FetchAllReports(upstream.pages), 1)) = 2
    /\ \E r \in Range(FetchAllReports(upstream.pages)) : DateKeyLocal(r.startTime) = 2
    /\ Payload.nights = <<1, 3, 8>>

\* The names a table gives: the trimmed, non-empty names of its player entries
TableNames(tableJson) ==
    {Trim(e.name) : e \in {x \in Range(ExtractEntries(tableJson)) : IsPlayerEntry(x)}}
    \ {""}

\* The fetched reports bucketed to a day that have kill fights
ReportsWithKillsOn(d) ==
    {r \in Range(FetchAllReports(upstream.pages)) :
        /\ IsTueOrThuLocal(r.startTime)
        /\ DateKeyLocal(r.startTime) = d
        /\ upstream.fights[r.code] # <<>>}

\* The union over those reports of the names in either table
UnionPresent(d) ==
    UNION {TableNames(upstream.table[r.code].DamageDone)
           \cup TableNames(upstream.table[r.code].Healing) : r \in ReportsWithKillsOn(d)}

\* C15 (night-level union): the raw presence set of every night is the union,
\* over the reports bucketed to it, of the names of the DamageDone and the
\* Healing table of the report's kill fights; a member resolved present on a
\* night without an override for it is credited exactly one unit, in however
\* many tables and reports of the night it appears.
C15_NightLevelUnion ==
    LET nights == RunNights IN
        latest # <<>> =>
            \A i \in DOMAIN nights :
                LET d == nights[i].dateKey
                IN  /\ RawPresent(d) = UnionPresent(d)
                    /\ Range(nights[i].presentMain)
                         = {Canonical(altMapFile, n) : n \in UnionPresent(d)}
                    /\ \A n \in Range(nights[i].presentMain) :
                          ~HasOverride(d, n) => Added(nights, i, n) = One

\* C15 witness: the first Tuesday has two reports with kills; Main is in both
\* tables of one and in the DamageDone table of the other, Bob in one table of
\* each, and each is credited one unit for the night.
C15_Witness ==
    LET nights == RunNights IN
        /\ latest # <<>>
        /\ nights # <<>> /\ nights[1].dateKey = 1
        /\ Cardinality(ReportsWithKillsOn(1)) = 2
        /\ "Main" \in TableNames(upstream.table["r1"].DamageDone)
        /\ "Main" \in TableNames(upstream.table["r1"].Healing)
        /\ "Main" \in TableNames(upstream.table["r5"].DamageDone)
        /\ "Bob" \in TableNames(upstream.table["r5"].Healing)
        /\ altMapFile = <<>>
        /\ Added(nights, 1, "Main") = One
        /\ Added(nights, 1, "Bob") = One

\* The names with an override entry on a day
OverrideNamesOn(d) ==
    IF d \in DOMAIN overridesFile THEN DOMAIN overridesFile[d] ELSE {}

\* The union over the nights of the payload of the canonical names present
\* and the override names
Universe ==
    UNION {{Canonical(altMapFile, n) : n \in UnionPresent(d)} \cup OverrideNamesOn(d)
           : d \in Range(Payload.nights)}

\* C16 (member universe): the rows are exactly one per name of the union, over
\* the nights, of the night's canonical presence set and the night's override
\* keys; a name with nothing but an override, of any value, has a row.
C16_MemberUniverse ==
    latest # <<>> =>
        /\ RowNames = Universe
        /\ Len(Payload.rows) = Cardinality(Universe)

\* C16 witness: a name resolved present on no night has an override of 0 on a
\* night, and has a row with nothing attended.
C16_Witness ==
    LET nights == RunNights IN
        /\ latest # <<>>
        /\ \E n \in RowNames :
              /\ \A i \in DOMAIN nights : n \notin Range(nights[i].presentMain)
              /\ \E i \in DOMAIN nights :
                    /\ HasOverride(nights[i].dateKey, n)
                    /\ overridesFile[nights[i].dateKey][n] = 0
              /\ RowOf(n).attended = 0
              /\ Len(Payload.rows) >= 2

\* The override table without the dates that are not among the nights
OverridesOnNights(overridesAll, nightKeys) ==
    [d \in DOMAIN overridesAll \cap Range(nightKeys) |-> overridesAll[d]]

\* C17 (overrides on non-nights are inert): the nights and rows of the payload
\* are those of the same run over the override table without the entries whose
\* date is excluded or otherwise not a night.
C17_InertOverrides ==
    latest # <<>> =>
        LET without == ComputePayload(upstream, excludedFile, altMapFile,
                                      OverridesOnNights(overridesFile, Payload.nights),
                                      "DamageDone")
        IN  /\ Payload.nights = without.nights
            /\ Payload.rows = without.rows

\* C17 witness: an override of 2 on an excluded Thursday with reports, another
\* on a Wednesday, and rows none of which carries the name of the first.
C17_Witness ==
    /\ latest # <<>>
    /\ 3 \in ExcludedSet(excludedFile)
    /\ HasOverride(3, "Main") /\ overridesFile[3]["Main"] = 16
    /\ HasOverride(2, "Bob")
    /\ upstream.fights["r2"] # <<>>
    /\ Payload.rows # <<>>
    /\ "Main" \notin RowNames
    /\ "Bob" \notin RowNames

C12_FailureLeavesCache ==
    [][\A r \in DOMAIN runs :
          (runs[r].pc # "failed" /\ runs'[r].pc = "failed") =>
              /\ latest' = latest
              /\ LatestResponse(latest') = LatestResponse(latest)]_vars

\* C12 witness: a run has failed while the cache holds the payload, with rows,
\* of a run that completed.
C12_Witness ==
    \E r \in DOMAIN runs : \E q \in DOMAIN runs :
        /\ runs[r].pc = "failed"
        /\ runs[q].pc = "done"
        /\ latest = runs[q].payload
        /\ latest[1].rows # <<>>
        /\ LatestResponse(latest).status = 200

\* Whether an upstream call of the run has failed: it threw, or it came back
\* without data
SawFailure(run) ==
    run.pc = "failed" \/ run.noDataPages # {} \/ run.noDataCalls # {}

\* C13 as claimed (all-or-nothing failure): a run one of whose upstream calls
\* failed returns no payload, and GET /refresh answers it with status 500 and
\* neither nights nor rows.
C13_AsClaimed ==
    \A r \in DOMAIN runs :
        SawFailure(runs[r]) =>
            /\ runs[r].pc # "done"
            /\ runs[r].payload = <<>>
            /\ (runs[r].kind = "refresh" /\ runs[r].pc = "failed") =>
                  RefreshResponse(runs[r]) = [status |-> 500, body |-> <<>>]

\* What upstream answered to the run's request of page i
Answer(run, i) ==
    IF i \in run.noDataPages THEN NoDataPage ELSE PageResponse(upstream.pages, i)

\* The records of the answers to pages 1 .. k, in page order
RECURSIVE ConcatPages(_, _)
ConcatPages(run, k) ==
    IF k = 0 THEN <<>> ELSE ConcatPages(run, k - 1) \o Answer(run, k).data

\* The pages requested so far are 1, 2, ... each once; every page but the last
\* requested announced more pages; the records accumulated are those of the
\* pages answered, in page order; and once fetchAllReports has returned, the
\* last page requested is the first that announced no more pages.
PagingInOrder(run) ==
    LET n == Len(run.requested)
    IN  /\ \A i \in 1 .. n : run.requested[i] = i
        /\ \A i \in 1 .. (n - 1) : Answer(run, i).has_more_pages
        /\ run.pc = "page" => run.all = ConcatPages(run, n - 1)
        /\ run.pc \notin {"page", "failed"} =>
              /\ ~Answer(run, n).has_more_pages
              /\ run.all = ConcatPages(run, n)

\* C14 (complete pagination): fetchAllReports requests the pages 1, 2, 3, ...
\* in order, each once, stops after the first page that announces no more
\* pages and returns the records of the requested pages in page order; and
\* with an upstream that answers and at some page announces no more pages, it
\* comes to an end.
C14_CompletePagination ==
    /\ [](\A r \in DOMAIN runs : PagingInOrder(runs[r]))
    /\ <>(\A r \in DOMAIN runs : runs[r].pc # "page")

\* C14 witness: three pages were requested, the third after two pages that
\* announced more; fetchAllReports returned the records of the three.
C14_Witness ==
    /\ runs # <<>>
    /\ failures = 0
    /\ runs[1].requested = <<1, 2, 3>>
    /\ runs[1].pc \notin {"page", "failed"}
    /\ Len(upstream.pages) = 3
    /\ \A i \in 1 .. 3 : upstream.pages[i].data # <<>>
    /\ runs[1].all = upstream.pages[1].data \o upstream.pages[2].data
                     \o upstream.pages[3].data

\* C18 as claimed (consistent snapshot): the payload of every run that
\* completed without a failed upstream call is the roll-up, over what upstream
\* answered to the run, of contents the three stores held together at some
\* moment.
C18_AsClaimed ==
    \A r \in DOMAIN runs :
        (runs[r].pc = "done" /\ ~SawFailure(runs[r])) =>
            \E c \in existed : \E first \in Arrivals :
                runs[r].payload[1]
                  = ComputePayload(SeenUpstream(runs[r]), c.excluded, c.altMap,
                                   c.overrides, first)

\* C19 as claimed (the cache converges): every admin route starts a run, and
\* when every run started has completed, none of them after a failed upstream
\* call, the cache holds the roll-up of the stores as they are.
C19_AsClaimed ==
    (runs # <<>> /\ \A r \in DOMAIN runs :
                       runs[r].pc = "done" /\ ~SawFailure(runs[r])) =>
        \E first \in Arrivals :
            latest = <<ComputePayload(upstream, excludedFile, altMapFile,
                                      overridesFile, first)>>

\* The elements of the two tables of report r1 that extractEntries hands on,
\* and the names of the rows the run returned: with no alias and no override,
\* the raw presence of the run's only night with kills
TableElements ==
    Range(ExtractEntries(upstream.table["r1"].DamageDone))
    \cup Range(ExtractEntries(upstream.table["r1"].Healing))

RunRowNames(run) ==
    {run.payload[1].rows[i].name : i \in DOMAIN run.payload[1].rows}

\* The entries the specification lets contribute to presence
CountsAsClaimed(e) ==
    /\ e # Null
    /\ "name" \in DOMAIN e
    /\ Trim(e.name) # ""
    /\ e.name \notin KNOWN_NPCS
    /\ e.type = NoType \/ e.type \in PLAYER_CLASSES

\* C21 as claimed (entry filtering): when the run completes and no upstream
\* call failed, the names present are exactly the trimmed names of the entries
\* whose name is not empty after trimming, whose exact name is not deny-listed
\* and whose type is absent or an allowed class; and no deny-listed name is
\* among the names present.
C21_AsClaimed ==
    (runs[1].pc = "done" /\ failures = 0) =>
        /\ RunRowNames(runs[1])
             = {Trim(e.name) : e \in {x \in TableElements : CountsAsClaimed(x)}}
        /\ RunRowNames(runs[1]) \cap KNOWN_NPCS = {}

\* perPlayerDates[name] of the cached payload, empty when the name has no key
DatesOf(name) ==
    IF name \in DOMAIN Payload.perPlayerDates
    THEN Payload.perPlayerDates[name] ELSE <<>>

\* C22 as claimed (perPlayerDates lists genuine presence): for every name,
\* perPlayerDates[name] is strictly ascending and its dates are exactly the
\* nights on which the name was in the resolved canonical presence set.
C22_AsClaimed ==
    LET nights == RunNights IN
        latest # <<>> =>
            \A n \in RowNames \cup DOMAIN Payload.perPlayerDates :
                LET dates == DatesOf(n)
                IN  /\ \A i \in 1 .. Len(dates) - 1 : dates[i] < dates[i + 1]
                    /\ Range(dates) = SeenOn(nights, n)

\* C23 (reports without kills are not errors): the run never awaits the tables
\* of a report whose fights query returned no kill fights; it fails with every
\* upstream call answered only while the tables of a report with kills are
\* being unwrapped; and when it completes, the day of every kept report, with
\* kills or without, is a night, every row's possible is the number of nights,
\* and the names in the tables of a report without kills are in no row.
C23_NoKillReports ==
    LET run == runs[1]
        noKills == {c \in DOMAIN upstream.fights : upstream.fights[c] = <<>>}
    IN  /\ run.pc = "tables" => Head(run.todo).code \notin noKills
        /\ (run.pc = "failed" /\ failures = 0) =>
                (run.todo # <<>> /\ Head(run.todo).code \notin noKills)
        /\ (run.pc = "done" /\ failures = 0) =>
              LET p == run.payload[1]
              IN  /\ \A i \in DOMAIN run.all :
                        DateKeyLocal(run.all[i].startTime) \in Range(p.nights)
                  /\ \A i \in DOMAIN p.rows :
                        /\ p.rows[i].possible = Len(p.nights)
                        /\ \A c \in noKills :
                              p.rows[i].name \notin
                                  TableNames(upstream.table[c].DamageDone)
                                  \cup TableNames(upstream.table[c].Healing)

\* A run completed with a row, after a report without kills whose tables
\* upstream would have answered with a name; its day is a night.
C23_Witness ==
    /\ runs[1].pc = "done"
    /\ failures = 0
    /\ upstream.fights["r3"] = <<>>
    /\ TableNames(upstream.table["r3"].DamageDone) = {"Gus"}
    /\ runs[1].payload[1].nights = <<1, 8>>
    /\ runs[1].payload[1].rows # <<>>
    /\ \A i \in DOMAIN runs[1].payload[1].rows :
          runs[1].payload[1].rows[i].possible = 2

\* The entries of a table as the specification orders the shapes: the direct
\* entries array, data.entries, the first element of series that has entries
\* or data.entries, the first top-level value that is a non-empty array whose
\* first element is an object with a name, and the empty list otherwise
SpecEntries(tableJson) ==
    IF tableJson = <<>> THEN <<>>
    ELSE LET t == tableJson[1]
             withEntries == IF t.series = <<>> THEN <<>>
                            ELSE SelectSeq(t.series[1], LAMBDA x :
                                    x # Null /\
                                    (x.entries # <<>> \/
                                     (x.data # <<>> /\ x.data[1].entries # <<>>)))
             named == SelectSeq(TopLevelArrays(t), LAMBDA v :
                          v # <<>> /\ v[1] # Null /\ "name" \in DOMAIN v[1])
         IN  IF t.entries # <<>> THEN t.entries[1]
             ELSE IF t.data # <<>> /\ t.data[1].entries # <<>>
                  THEN t.data[1].entries[1]
             ELSE IF withEntries # <<>>
                  THEN IF withEntries[1].entries # <<>>
                       THEN withEntries[1].entries[1]
                       ELSE withEntries[1].data[1].entries[1]
             ELSE IF named # <<>> THEN named[1]
             ELSE <<>>

PlayerNames(entries) ==
    {Trim(e.name) : e \in {x \in Range(entries) : IsPlayerEntry(x)}} \ {""}

\* C24 as claimed (shape extraction order): with every upstream call answered,
\* the run does not fail, extractEntries never raising an error, and the names
\* present are those of the entries found in the order of the shapes.
C24_AsClaimed ==
    (runs[1].pc \in {"done", "failed"} /\ failures = 0) =>
        /\ runs[1].pc = "done"
        /\ RunRowNames(runs[1])
             = PlayerNames(SpecEntries(upstream.table["r1"].DamageDone))
               \cup PlayerNames(SpecEntries(upstream.table["r1"].Healing))

\* The nights of the cached payload under which the run grouped the report
NightsOfReport(r) ==
    {d \in Range(Payload.nights) :
        r \in Range(GroupedGet(KeptReports(FetchAllReports(upstream.pages),
                                           ExcludedSet(excludedFile)), d))}

\* C25 (single bucketing): every fetched report is grouped under at most one
\* night, which is the local day of its startTime; it is grouped under one
\* exactly if that day is a Tuesday or a Thursday and is not excluded; the
\* local day of its endTime, when it is another day, is never its night.
C25_SingleBucketing ==
    latest # <<>> =>
        \A r \in Range(FetchAllReports(upstream.pages)) :
            LET start == LocalDay(r.startTime)
                buckets == NightsOfReport(r)
            IN  /\ Cardinality(buckets) <= 1
                /\ buckets \subseteq {start}
                /\ buckets # {} <=>
                      (start % 7 \in {1, 3} /\ start \notin ExcludedSet(excludedFile))
                /\ LocalDay(r.endTime) # start => LocalDay(r.endTime) \notin buckets

\* C25 witness: r5 starts on Tuesday at 23:00 local time, when the UTC date is
\* already Wednesday, ends on Wednesday and is grouped under Tuesday alone;
\* r4 starts on Wednesday and ends on Thursday, which is a night, and is
\* grouped under no night.
C25_Witness ==
    /\ latest # <<>>
    /\ \E r \in Range(FetchAllReports(upstream.pages)) :
          /\ r.code = "r5"
          /\ r.startTime \div 24 = 2 /\ LocalDay(r.startTime) = 1
          /\ LocalDay(r.endTime) = 2
          /\ NightsOfReport(r) = {1}
    /\ \E r \in Range(FetchAllReports(upstream.pages)) :
          /\ r.code = "r4"
          /\ LocalDay(r.startTime) = 2 /\ LocalDay(r.endTime) = 3
          /\ 3 \in Range(Payload.nights)
          /\ NightsOfReport(r) = {}

\* C26 as claimed (mirror consistency): when requests have been accepted and
\* no save is in flight any more, the three files hold toLegacyOverrides of
\* state.overrides, toLegacyAltMap of state.links and state.dates.
C26_AsClaimed ==
    (saves = <<>> /\ 200 \in Range(answers)) =>
        /\ overridesFile = ToLegacyOverrides(state.overrides)
        /\ altMapFile = ToLegacyAltMap(state.links)
        /\ excludedFile = state.dates

\* The rows of state.overrides for a dateKey and a name whatever its case,
\* the other rows, and whether no two rows share a dateKey and a name
PairRows(overrides, dateKey, name) ==
    SelectSeq(overrides, LAMBDA o :
        o.dateKey = dateKey /\ ToLowerCase(o.name) = ToLowerCase(name))

OtherRows(overrides, dateKey, name) ==
    SelectSeq(overrides, LAMBDA o :
        ~(o.dateKey = dateKey /\ ToLowerCase(o.name) = ToLowerCase(name)))

OneRowPerPair(overrides) ==
    \A i, j \in DOMAIN overrides :
        (overrides[i].dateKey = overrides[j].dateKey
         /\ ToLowerCase(overrides[i].name) = ToLowerCase(overrides[j].name)) => i = j

\* C27 (upsert uniqueness): a POST /override that is accepted leaves exactly
\* one row for its dateKey and name (whatever the case), carrying the name as
\* posted and the value posted; a DELETE /override that is accepted leaves no
\* row for them; both leave the rows of the other pairs as they were, and a
\* state with at most one row per pair stays so.
C27_UpsertUniqueness ==
    [][\A header \in Headers : \A body \in OverrideBodies :
          /\ (PostOverrideRequest(header, body) /\ Len(saves') > Len(saves)) =>
                /\ PairRows(state'.overrides, body.dateKey, body.name)
                     = <<OverrideRow(body.dateKey, body.name, body.fractional[1])>>
                /\ OtherRows(state'.overrides, body.dateKey, body.name)
                     = OtherRows(state.overrides, body.dateKey, body.name)
                /\ OneRowPerPair(state.overrides) => OneRowPerPair(state'.overrides)
          /\ (DeleteOverrideRequest(header, body) /\ Len(saves') > Len(saves)) =>
                /\ PairRows(state'.overrides, body.dateKey, body.name) = <<>>
                /\ OtherRows(state'.overrides, body.dateKey, body.name)
                     = OtherRows(state.overrides, body.dateKey, body.name)
                /\ OneRowPerPair(state.overrides) => OneRowPerPair(state'.overrides)]_vars

\* C27 witness: 'Bob' was posted with 0.5 and then 'bob' with 1 for the same
\* date; the state holds the one row of the second request.
C27_Witness ==
    /\ Len(answers) + Len(saves) = 2
    /\ state.overrides = <<OverrideRow(1, "bob", 8)>>

\* The request carries the configured admin token as its bearer token
CarriesAdminToken(header) ==
    adminToken # <<>> /\ header \in {"Bearer " \o adminToken[1], "Bearer  " \o adminToken[1]}

ErrorStatuses == {400, 401, 403, 404}

C29_AsClaimed ==
    adminToken = <<>> =>
        /\ \A i \in DOMAIN answers : answers[i] = 401
        /\ excludedFile = <<>>
        /\ altMapFile = <<>>
        /\ overridesFile = <<>>
        /\ latest = <<>>

====
